---- MODULE Spec2Model ----
(***************************************************************************)
(* Verification model of igorvolk1961/sgr-agents.                          *)
(*                                                                         *)
(* Part 1: tool-availability policies of the agent variants                *)
(*         (SGRYandexAgent._prepare_tools, BenchmarkAgent._prepare_tools,  *)
(*         create_benchmark_agent).                                        *)
(***************************************************************************)
EXTENDS Integers, Sequences, FiniteSets, TLC

VARIABLES
    variant,      \* which agent class the instance is
    toolkit_arg,  \* the toolkit handed to the constructor / factory
    toolkit,      \* self.toolkit of the agent instance
    ctx,          \* self._context: the ResearchContext counters
    limits,       \* max_iterations / max_searches / max_clarifications
    offered,      \* what the last _prepare_tools call produced
    apc,          \* position of the agent: turn, prepared, completed, failed
    tracker,      \* the tracker: its configuration and the parent's subtasks
    jcall,        \* the last call of a JiraIntegration method and its outcome
    todo_items,   \* sync: the items parse_todo_file gave, in file order
    spc,          \* sync: position of the script: start, loop, done, aborted
    idx,          \* sync: the index in todo_items of the item the loop is at
    created_count,  \* sync: the "created/found" counter
    updated_count,  \* sync: the "statuses updated" counter
    slog,         \* sync: what the run did, one entry per handled item
    config,       \* model choice: config.yaml, as yaml.safe_load reads it
    files,        \* model choice: the prompt files that exist
    access,       \* model choice: the TaskAccessTool instance
    tcall,        \* model choice: the last tool call and its outcome
    services,     \* LLM services: the model-choice LLMService instances
    llm_service,  \* LLM services: _llm_service of llm_call_tool
    task_tools,   \* LLM services: the TaskAccessTool instances
    clients,      \* LLM services: the HTTP clients constructed so far
    models_cache, \* LLM services: _models_cache of the core LLMService
    lcalls,       \* LLM services: the call_llm calls made so far
    scall,        \* call_llm: response_format given? generator attached?
    chunks,       \* call_llm: the chunks the provider sends, in order
    received,     \* call_llm: how many of them the loop has taken
    generator,    \* call_llm: the events the streaming generator was given
    plain_text_parts,     \* call_llm: the local of that name
    tool_call_arguments,  \* call_llm: the local of that name, in key order
    sret,         \* call_llm: what the call returned or raised
    llm_config,     \* cloud agent: the LLMConfig handed to the constructor
    openai_client,  \* cloud agent: the keyword arguments of its AsyncOpenAI
    jira_config,    \* sync settings: config.get("jira", {})
    environ,        \* sync settings: os.environ once load_dotenv has run
    settings,       \* sync settings: the module-level jira_* names
    todo_lines,     \* TODO file: its lines, content.split("\n")
    todo_parsed,    \* TODO file: what parse_todo_file returned
    summaries       \* TODO file: the summary the sync builds of each item

agentVars == <<variant, toolkit_arg, toolkit, ctx, limits, offered, apc>>

jiraVars == <<tracker, jcall>>

syncVars == <<todo_items, spc, idx, created_count, updated_count, slog>>

choiceVars == <<config, files, access, tcall>>

llmVars ==
    <<services, llm_service, task_tools, clients, models_cache, lcalls>>

streamVars ==
    <<scall, chunks, received, generator, plain_text_parts,
      tool_call_arguments, sret>>

cloudVars == <<llm_config, openai_client>>

settingsVars == <<jira_config, environ, settings>>

todoVars == <<todo_lines, todo_parsed, summaries>>

scriptVars == <<cloudVars, settingsVars, todoVars>>

vars ==
    <<agentVars, jiraVars, syncVars, choiceVars, llmVars, streamVars,
      scriptVars>>

\* what the steps of one part leave alone: the variables of the other parts
exceptAgent ==
    <<jiraVars, syncVars, choiceVars, llmVars, streamVars,
      scriptVars>>

exceptJira ==
    <<agentVars, syncVars, choiceVars, llmVars, streamVars,
      scriptVars>>

exceptSync ==
    <<agentVars, choiceVars, llmVars, streamVars,
      scriptVars>>

exceptChoice ==
    <<agentVars, jiraVars, syncVars, llmVars, streamVars,
      scriptVars>>

exceptLlm ==
    <<agentVars, jiraVars, syncVars, choiceVars, streamVars,
      scriptVars>>

exceptStream ==
    <<agentVars, jiraVars, syncVars, choiceVars, llmVars,
      scriptVars>>

programVars ==
    <<agentVars, jiraVars, syncVars, choiceVars, llmVars, streamVars>>

exceptCloud == <<programVars, settingsVars, todoVars>>

exceptSettings == <<programVars, cloudVars, todoVars>>

exceptTodo == <<programVars, cloudVars, settingsVars>>

-----------------------------------------------------------------------------
(* Bounds of the model *)

\* the counters of a context and the limits of ExecutionConfig range over
\* 0..MaxUsed
MaxUsed == 1
\* the parent issue has at most MaxSubtasks subtasks
MaxSubtasks == 1
\* the TODO file has at most MaxItems item lines
MaxItems == 2
\* at most MaxFaults kinds of client calls fail while the sync handles one item
MaxFaults == 1
\* at most MaxCalls call_llm calls are made in one process
MaxCalls == 3
\* at most MaxTools TaskAccessTool instances are built in one process
MaxTools == 2
\* the provider sends at most MaxChunks chunks in one call
MaxChunks == 2
\* an answer sits under at most MaxDepth string-encoded response fields
MaxDepth == 2
\* the TODO file has at most MaxLines lines
MaxLines == 2
\* a run of an agent is followed for at most MaxTurns executed tools
MaxTurns == 5

-----------------------------------------------------------------------------
(* Tool classes *)

ReasoningTool == "ReasoningTool"
WebSearchTool == "WebSearchTool"
ExtractPageContentTool == "ExtractPageContentTool"
FinalAnswerTool == "FinalAnswerTool"
GeneratePlanTool == "GeneratePlanTool"
AdaptPlanTool == "AdaptPlanTool"
ClarificationTool == "ClarificationTool"
CreateReportTool == "CreateReportTool"

Tools ==
    { ReasoningTool, WebSearchTool, ExtractPageContentTool, FinalAnswerTool,
      GeneratePlanTool, AdaptPlanTool, ClarificationTool, CreateReportTool }

DEFAULT_TOOLKIT ==
    { ReasoningTool, WebSearchTool, ExtractPageContentTool, FinalAnswerTool }

\* the toolkit argument of the constructors: a list of tools, or None
Toolkit(tools) == [given |-> TRUE, tools |-> tools]

NoToolkit == [given |-> FALSE, tools |-> {}]

Variants == { "sgr_yandex_agent", "benchmark_agent", "benchmark_sgr_agent" }

BenchmarkVariants == { "benchmark_agent", "benchmark_sgr_agent" }

\* a _prepare_tools call either returns a tool set or raises
Returned(tools) == [raised |-> "none", tools |-> tools]

Raised(exc) == [raised |-> exc, tools |-> {}]

NotCalled == [raised |-> "not_called", tools |-> {}]

-----------------------------------------------------------------------------
(* SGRYandexAgent._prepare_tools *)

\* the search gate of lines 77-80 with `>` for `>=`
Yandex_search_gate_late(tools, c, lim) ==
    IF c.searches_used > lim.max_searches
    THEN tools \ {WebSearchTool} ELSE tools

\* lines 77-80
Yandex_search_gate(tools, c, lim) ==
    IF c.searches_used >= lim.max_searches
    THEN tools \ {WebSearchTool} ELSE tools

\* the report gate of lines 90-98 that keeps FinalAnswerTool before a report
Yandex_report_gate_keep(tools, c) ==
    IF CreateReportTool \in tools /\ c.report_creations_used > 0
    THEN {FinalAnswerTool} ELSE tools

\* lines 90-98
Yandex_report_gate(tools, c) ==
    IF CreateReportTool \in tools
    THEN (IF c.report_creations_used > 0
          THEN {FinalAnswerTool}
          ELSE tools \ {FinalAnswerTool})
    ELSE tools

\* the gate of lines 116-119 left out
Yandex_unread_gate_open(tools, c) == tools

\* lines 116-119
Yandex_unread_gate(tools, c) ==
    IF c.page_extractions_used < c.searches_used
    THEN tools \ {WebSearchTool} ELSE tools

\* Python's `tools += {...}` on a set: set defines neither __iadd__ nor
\* __add__, so the statement raises TypeError whatever the operands are.
SetIAdd(tools, other) == Raised("TypeError")

Yandex_prepare_tools(tk, c, lim) ==
    LET t0 == tk
        \* lines 73-76
        t1 == IF c.clarifications_used >= lim.max_clarifications
              THEN t0 \ {ClarificationTool} ELSE t0
        \* lines 77-80
        t2 == Yandex_search_gate(t1, c, lim)
        \* lines 81-89
        t3 == IF c.plan_generations_used = 0
              THEN (IF GeneratePlanTool \in t2 THEN {GeneratePlanTool} ELSE t2)
              ELSE t2 \ {GeneratePlanTool}
        \* lines 90-98
        t4 == Yandex_report_gate(t3, c)
        \* lines 99-105
        t5 == IF c.searches_used = 0
              THEN t4 \ {AdaptPlanTool, ExtractPageContentTool,
                         CreateReportTool, FinalAnswerTool}
              ELSE t4
        \* lines 106-109
        t6 == IF c.page_extractions_used = 0
              THEN t5 \ {AdaptPlanTool} ELSE t5
        \* lines 110-114
        t7 == IF \/ c.page_extractions_used >= lim.max_searches
                 \/ c.page_extractions_used >= c.searches_used
              THEN t6 \ {ExtractPageContentTool} ELSE t6
        \* lines 116-119
        t8 == Yandex_unread_gate(t7, c)
        \* lines 121-124
        t9 == IF c.plan_adaptations_used >= c.searches_used
              THEN t8 \ {AdaptPlanTool} ELSE t8
    IN  \* lines 63-72: both branches execute `tools += {...}`
        IF c.iteration >= lim.max_iterations
        THEN (IF CreateReportTool \in t0
              THEN SetIAdd(t0, {CreateReportTool, FinalAnswerTool})
              ELSE SetIAdd(t0, {FinalAnswerTool}))
        ELSE Returned(t9)

\* SGRYandexAgent.__init__ hands the toolkit to the base class unchanged
Yandex__init__(tk) == tk

-----------------------------------------------------------------------------
(* BenchmarkAgent (both files are the same but for the schema conversion) *)

\* the iteration cap with `>` for `>=`
Benchmark_prepare_tools_cap_late(tk, c, lim) ==
    LET t1 == IF c.iteration > lim.max_iterations
              THEN {ReasoningTool, FinalAnswerTool} ELSE tk
        t2 == IF c.searches_used >= lim.max_searches
              THEN t1 \ {WebSearchTool} ELSE t1
    IN  Returned(t2)

Benchmark_prepare_tools(tk, c, lim) ==
    LET t0 == tk
        t1 == IF c.iteration >= lim.max_iterations
              THEN {ReasoningTool, FinalAnswerTool} ELSE t0
        t2 == IF c.searches_used >= lim.max_searches
              THEN t1 \ {WebSearchTool} ELSE t1
    IN  Returned(t2)

\* base_definition.tools = list(toolkit or DEFAULT_TOOLKIT)
create_benchmark_agent_tools(arg) ==
    IF arg = NoToolkit \/ arg.tools = {} THEN DEFAULT_TOOLKIT ELSE arg.tools

\* super().__init__(*args, **kwargs); self.toolkit = list(DEFAULT_TOOLKIT)
Benchmark__init__(tk) == DEFAULT_TOOLKIT

\* AgentFactory.create(definition, task) instantiates the definition's class
\* with the definition's toolkit (section 4.8 of the specification)
AgentFactory_create(cls, tools) == Benchmark__init__(tools)

\* the toolkit of the instance the constructor call produces
Construct(v, arg) ==
    IF v \in BenchmarkVariants
    THEN AgentFactory_create(v, create_benchmark_agent_tools(arg))
    ELSE Yandex__init__(arg.tools)

prepare_tools(v, tk, c, lim) ==
    IF v \in BenchmarkVariants THEN Benchmark_prepare_tools(tk, c, lim)
    ELSE Yandex_prepare_tools(tk, c, lim)

-----------------------------------------------------------------------------
(* The agent as a state machine *)

CounterNames ==
    { "iteration", "searches_used", "page_extractions_used",
      "clarifications_used", "plan_generations_used",
      "plan_adaptations_used", "report_creations_used" }

\* plan_generations_used and report_creations_used are read through `== 0`
\* and `> 0` only (lines 81 and 91), and the policy stops offering their tools
\* once they are 1: they range over 0..1
CounterRange(n) ==
    IF n \in {"plan_generations_used", "report_creations_used"}
    THEN 0..1 ELSE 0..MaxUsed

Contexts == { c \in [CounterNames -> 0..MaxUsed] :
                \A n \in CounterNames : c[n] \in CounterRange(n) }

\* the benchmark agents read iteration and searches_used only
BenchmarkContexts ==
    { c \in Contexts :
        \A n \in CounterNames \ {"iteration", "searches_used"} : c[n] = 0 }

Limits ==
    [max_iterations : 1..MaxUsed, max_searches : 0..MaxUsed,
     max_clarifications : 0..MaxUsed]

\* the counter a tool's execution advances (section 4.7 of the specification)
CounterOf(t) ==
    CASE t = WebSearchTool -> "searches_used"
      [] t = ExtractPageContentTool -> "page_extractions_used"
      [] t = ClarificationTool -> "clarifications_used"
      [] t = GeneratePlanTool -> "plan_generations_used"
      [] t = AdaptPlanTool -> "plan_adaptations_used"
      [] t = CreateReportTool -> "report_creations_used"
      [] OTHER -> "none"

\* the other parts of the system at rest
JiraIdle ==
    /\ tracker = [site |-> [workflow |-> "ru", types |-> << >>], subs |-> << >>]
    /\ jcall = [method |-> "none"]

ChoiceIdle ==
    /\ config = [type |-> "missing"]
    /\ files = {}
    /\ access = [imported |-> FALSE, service |-> "None",
                 instrumental_config |-> [loaded |-> FALSE]]
    /\ tcall = [tool |-> "none"]

LlmIdle ==
    /\ services = << >>
    /\ llm_service = 0
    /\ task_tools = << >>
    /\ clients = << >>
    /\ models_cache = << >>
    /\ lcalls = << >>

CloudIdle ==
    /\ llm_config = [kind |-> "none"]
    /\ openai_client = [kind |-> "none"]

SettingsIdle ==
    /\ jira_config = << >>
    /\ environ = << >>
    /\ settings = [kind |-> "none"]

TodoIdle ==
    /\ todo_lines = << >>
    /\ todo_parsed = [kind |-> "none"]
    /\ summaries = << >>

ScriptIdle == CloudIdle /\ SettingsIdle /\ TodoIdle

StreamIdle ==
    /\ scall = [structured |-> FALSE, attached |-> FALSE]
    /\ chunks = << >>
    /\ received = 0
    /\ generator = << >>
    /\ plain_text_parts = << >>
    /\ tool_call_arguments = << >>
    /\ sret = [state |-> "idle"]

SyncIdle ==
    /\ todo_items = << >>
    /\ spc = "idle"
    /\ idx = 0
    /\ created_count = 0
    /\ updated_count = 0
    /\ slog = << >>

AgentInit ==
    /\ JiraIdle
    /\ SyncIdle
    /\ ChoiceIdle
    /\ LlmIdle
    /\ StreamIdle
    /\ ScriptIdle
    /\ variant \in Variants
    /\ toolkit_arg \in { Toolkit(tk) : tk \in SUBSET Tools } \cup
          (IF variant \in BenchmarkVariants THEN {NoToolkit} ELSE {})
    /\ toolkit = Construct(variant, toolkit_arg)
    /\ ctx \in (IF variant \in BenchmarkVariants
                THEN BenchmarkContexts ELSE Contexts)
    /\ limits \in Limits
    /\ offered = NotCalled
    /\ apc = "turn"

PrepareTools ==
    /\ apc = "turn"
    /\ offered' = prepare_tools(variant, toolkit, ctx, limits)
    /\ apc' = IF offered'.raised = "none" THEN "prepared" ELSE "failed"
    /\ UNCHANGED <<variant, toolkit_arg, toolkit, ctx, limits>>
    /\ UNCHANGED exceptAgent

\* the runtime executes the tool the model chose among the offered ones
ExecuteTool ==
    /\ apc = "prepared"
    /\ \E t \in offered.tools :
        /\ ctx.iteration + 1 \in CounterRange("iteration")
        /\ CounterOf(t) # "none" =>
               ctx[CounterOf(t)] + 1 \in CounterRange(CounterOf(t))
        /\ ctx' = [n \in CounterNames |->
                     IF n = "iteration" \/ n = CounterOf(t)
                     THEN ctx[n] + 1 ELSE ctx[n]]
        /\ apc' = IF t = FinalAnswerTool THEN "completed" ELSE "turn"
    /\ UNCHANGED <<variant, toolkit_arg, toolkit, limits, offered>>
    /\ UNCHANGED exceptAgent

AgentNext ==
    \/ PrepareTools
    \/ ExecuteTool

SpecTools == AgentInit /\ [][AgentNext]_vars

-----------------------------------------------------------------------------
(* A run of a cloud agent from its construction on *)

\* ResearchContext(): every counter is 0
FreshContext == [n \in CounterNames |-> 0]

\* the budgets of a run: max_iterations may lie beyond the turns followed
RunLimits ==
    [max_iterations : 1..(MaxTurns + 1), max_searches : 0..MaxUsed + 1,
     max_clarifications : 0..MaxUsed]

RunInit ==
    /\ JiraIdle
    /\ SyncIdle
    /\ ChoiceIdle
    /\ LlmIdle
    /\ StreamIdle
    /\ ScriptIdle
    /\ variant = "sgr_yandex_agent"
    /\ toolkit_arg \in { Toolkit(tk) : tk \in SUBSET Tools }
    /\ toolkit = Construct(variant, toolkit_arg)
    /\ ctx = FreshContext
    /\ limits \in RunLimits
    /\ offered = NotCalled
    /\ apc = "turn"

\* the runtime executes the tool the model chose among the offered ones and
\* advances iteration and the tool's counter (sections 4.5 and 4.7 of the
\* specification)
RunTool ==
    /\ apc = "prepared"
    /\ ctx.iteration < MaxTurns
    /\ \E t \in offered.tools :
        /\ ctx' = [n \in CounterNames |->
                     IF n = "iteration" \/ n = CounterOf(t)
                     THEN ctx[n] + 1 ELSE ctx[n]]
        /\ apc' = IF t = FinalAnswerTool THEN "completed" ELSE "turn"
    /\ UNCHANGED <<variant, toolkit_arg, toolkit, limits, offered>>
    /\ UNCHANGED exceptAgent

RunNext ==
    \/ PrepareTools
    \/ RunTool

SpecRun == RunInit /\ [][RunNext]_vars

-----------------------------------------------------------------------------

(* Claims about the tool-availability policies *)

\* the last _prepare_tools call was made on the current context
JustPrepared == apc \in {"prepared", "failed"}

IsYandex == variant = "sgr_yandex_agent"

IsBenchmark == variant \in BenchmarkVariants

AtIterationCap == ctx.iteration >= limits.max_iterations

\* C1: in the cloud variant, whenever iteration >= max_iterations the offered
\* tool set is exactly {FinalAnswerTool}, plus CreateReportTool iff it is in
\* the toolkit (so ReasoningTool and WebSearchTool are not offered).
C1_CapOffersFinalAnswerOnly ==
    (IsYandex /\ JustPrepared /\ AtIterationCap) =>
        offered = Returned({FinalAnswerTool}
                           \cup (toolkit \cap {CreateReportTool}))

\* C2: in the cloud variant, whenever GeneratePlanTool is in the toolkit and
\* plan_generations_used = 0, exactly {GeneratePlanTool} is offered, whatever
\* the other counters and the limits are.
C2_PlanFirst ==
    (IsYandex /\ JustPrepared /\ GeneratePlanTool \in toolkit
       /\ ctx.plan_generations_used = 0) =>
        offered = Returned({GeneratePlanTool})

\* the plan-first rule below the iteration cap
C2_PlanFirstBelowCap ==
    (IsYandex /\ JustPrepared /\ GeneratePlanTool \in toolkit
       /\ ctx.plan_generations_used = 0 /\ ~AtIterationCap) =>
        offered = Returned({GeneratePlanTool})

C3_NoSearchPastBudget ==
    (JustPrepared /\ ctx.searches_used >= limits.max_searches) =>
        WebSearchTool \notin offered.tools

\* C3: in the cloud variant and in both benchmark variants, a _prepare_tools
\* call made with searches_used >= max_searches offers no WebSearchTool, and
\* searches_used never decreases, so this stays so on every later turn.
C3_SearchBudget ==
    /\ [] C3_NoSearchPastBudget
    /\ [][ctx'.searches_used >= ctx.searches_used]_vars

C3_Witness ==
    /\ apc = "prepared"
    /\ WebSearchTool \in toolkit
    /\ ctx.searches_used >= limits.max_searches
    /\ ctx.searches_used > 0
    /\ offered.tools # {}

\* C4: a benchmark agent offers exactly {ReasoningTool, FinalAnswerTool} when
\* iteration >= max_iterations, otherwise its toolkit without WebSearchTool
\* when searches_used >= max_searches, otherwise its whole toolkit.
C4_BenchmarkTwoGates ==
    (IsBenchmark /\ JustPrepared) =>
        offered = Returned(
            IF AtIterationCap THEN {ReasoningTool, FinalAnswerTool}
            ELSE IF ctx.searches_used >= limits.max_searches
                 THEN toolkit \ {WebSearchTool}
                 ELSE toolkit)

C4_Witness ==
    /\ IsBenchmark
    /\ apc = "prepared"
    /\ ~AtIterationCap
    /\ ctx.searches_used >= limits.max_searches
    /\ offered.tools = toolkit \ {WebSearchTool}
    /\ WebSearchTool \in toolkit

\* C5: a benchmark agent created with a non-empty caller-supplied toolkit T
\* offers exactly the tools of T while iteration < max_iterations and
\* searches_used < max_searches.
C5_CallerToolkitUsed ==
    (IsBenchmark /\ apc = "prepared" /\ toolkit_arg # NoToolkit
       /\ toolkit_arg.tools # {} /\ ~AtIterationCap
       /\ ctx.searches_used < limits.max_searches) =>
        offered.tools = toolkit_arg.tools

-----------------------------------------------------------------------------
(***************************************************************************)
(* Part 2: the ticket-tracker integration (official-agent/core/            *)
(*         jira_integration.py) and the TODO synchronisation script        *)
(*         (official-agent/scripts/sync_todo_to_jira.py).                  *)
(*                                                                         *)
(* Strings are TLA+ strings of ASCII characters; the Cyrillic literals of  *)
(* the source are written in Latin transliteration, letter case kept       *)
(* ("В РАБОТЕ" is "V RABOTE", "В работе" is "V rabote", "На ревью" is      *)
(* "Na revyu", "Взять в работу" is "Vzyat v rabotu").                      *)
(***************************************************************************)

UpperChars == "ABCDEFGHIJKLMNOPQRSTUVWXYZ"

LowerChars == "abcdefghijklmnopqrstuvwxyz"

CharAt(s, i) == SubSeq(s, i, i)

\* the lower-case letter of every upper-case letter, and the reverse
ToLower ==
    [c \in { CharAt(UpperChars, i) : i \in 1..Len(UpperChars) } |->
        CharAt(LowerChars,
               CHOOSE i \in 1..Len(UpperChars) : CharAt(UpperChars, i) = c)]

ToUpper ==
    [c \in { CharAt(LowerChars, i) : i \in 1..Len(LowerChars) } |->
        CharAt(UpperChars,
               CHOOSE i \in 1..Len(LowerChars) : CharAt(LowerChars, i) = c)]

\* str.lower() of one character
LowerCh(c) == IF c \in DOMAIN ToLower THEN ToLower[c] ELSE c

\* str.upper() of one character
UpperCh(c) == IF c \in DOMAIN ToUpper THEN ToUpper[c] ELSE c

\* str.lower(): every character in lower case
lower(s) ==
    LET low[i \in 0..Len(s)] ==
            IF i = 0 THEN "" ELSE low[i - 1] \o LowerCh(CharAt(s, i))
    IN  low[Len(s)]

\* str.upper(): every character in upper case
upper(s) ==
    LET up[i \in 0..Len(s)] ==
            IF i = 0 THEN "" ELSE up[i - 1] \o UpperCh(CharAt(s, i))
    IN  up[Len(s)]

\* s.startswith(prefix)
startswith(s, prefix) ==
    /\ Len(prefix) <= Len(s)
    /\ SubSeq(s, 1, Len(prefix)) = prefix

\* sub in s
contains(s, sub) ==
    \E i \in 1..(Len(s) - Len(sub) + 1) : SubSeq(s, i, i + Len(sub) - 1) = sub

\* s.strip() for the blanks at both ends: from the first character that is
\* no blank to the last one
strip(s) ==
    LET inked == { i \in 1..Len(s) : CharAt(s, i) # " " }
    IN  IF inked = {} THEN ""
        ELSE SubSeq(s, CHOOSE i \in inked : \A j \in inked : i <= j,
                       CHOOSE i \in inked : \A j \in inked : i >= j)

\* any(keyword in s for keyword in keywords)
any_keyword_in(keywords, s) ==
    \E i \in 1..Len(keywords) : contains(s, keywords[i])

-----------------------------------------------------------------------------
(* The tracker as the jira client library shows it *)

\* "PFM-33": the parent issue; the subtask created i-th has key PFM-(33+i)
ParentKey == 33

KeyOf(i) == ParentKey + i

IndexOf(key) == key - ParentKey

\* a method that returns `str | None` returns NoKey / None for None
NoKey == 0

None == "None"

\* the calls of the client library; a tracker error (JIRAError) can leave
\* each of them ("parent_issue": jira.issue() of the parent, "issue":
\* jira.issue() of a subtask)
ClientOps ==
    { "issue", "parent_issue", "issue_types", "project", "create_issue",
      "transitions", "transition_issue", "add_comment", "assign_issue",
      "search_issues" }

Transition(id, name, to) == [id |-> id, name |-> name, to |-> to]

\* two tracker configurations: the workflow of the source's comments
\* (Otkryt -> V rabote -> Na revyu) and a stock English one
RussianWorkflow(status) ==
    CASE status = "Otkryt" ->
            << Transition(11, "Vzyat v rabotu", "V rabote") >>
      [] status = "V rabote" ->
            << Transition(21, "Otlozhit", "Otkryt"),
               Transition(31, "Na revyu", "Na revyu") >>
      [] status = "Na revyu" ->
            << Transition(41, "Vernut na dorabotku", "V rabote") >>
      [] OTHER -> << >>

EnglishWorkflow(status) ==
    CASE status = "To Do" ->
            << Transition(11, "Start Progress", "In Progress"),
               Transition(51, "Close", "Done") >>
      [] status = "In Progress" ->
            << Transition(21, "Stop Progress", "To Do"),
               Transition(31, "Send to Review", "In Review"),
               Transition(51, "Close", "Done") >>
      [] status = "In Review" ->
            << Transition(41, "Rework", "In Progress"),
               Transition(51, "Close", "Done") >>
      [] OTHER -> << >>

Sites ==
    { [workflow |-> "ru", types |-> << "Zadacha", "Podzadacha" >>],
      [workflow |-> "en", types |-> << "Epic", "Task" >>],
      [workflow |-> "ru", types |-> << "Epic" >>],
      [workflow |-> "en", types |-> << >>] }

StatusesOf(w) ==
    IF w = "ru" THEN { "Otkryt", "V rabote", "Na revyu" }
    ELSE { "To Do", "In Progress", "In Review", "Done" }

\* the status the tracker gives a new issue
InitialStatus(w) == IF w = "ru" THEN "Otkryt" ELSE "To Do"

WorkflowOf(tr, status) ==
    IF tr.site.workflow = "ru" THEN RussianWorkflow(status)
    ELSE EnglishWorkflow(status)

Exists(tr, key) == key = ParentKey \/ IndexOf(key) \in 1..Len(tr.subs)

StatusOf(tr, key) ==
    IF key = ParentKey THEN "V rabote" ELSE tr.subs[IndexOf(key)].status

\* self.jira.issue(key): raises when the tracker fails or knows no such issue
IssueFails(tr, F, key) ==
    \/ (IF key = ParentKey THEN "parent_issue" ELSE "issue") \in F
    \/ ~Exists(tr, key)

\* what a method call comes to: its return value or the exception that left
\* it, whether a tracker error (JIRAError) reached the method's own try
\* block, the tracker after it, and the transition_issue calls it made
Ret(v, tr, tlog) ==
    [ret |-> v, exc |-> "none", err |-> FALSE, tr |-> tr, tlog |-> tlog]

\* `except JIRAError: ... return v`
Caught(v, tr, tlog) ==
    [ret |-> v, exc |-> "none", err |-> TRUE, tr |-> tr, tlog |-> tlog]

\* `except JIRAError: ... raise`, or an exception no handler catches
Exc(e, tr, tlog) ==
    [ret |-> "raised", exc |-> e, err |-> (e = "JIRAError"), tr |-> tr,
     tlog |-> tlog]

\* the least index at which flags holds TRUE, 0 when there is none: the
\* element at which a `for` loop with a test in it stops
FirstTrue(flags) ==
    IF \E i \in 1..Len(flags) : flags[i]
    THEN CHOOSE i \in 1..Len(flags) :
            /\ flags[i]
            /\ \A j \in 1..(i - 1) : ~flags[j]
    ELSE 0

SetStatus(tr, key, status) ==
    [tr EXCEPT !.subs[IndexOf(key)].status = status]

-----------------------------------------------------------------------------
(* JiraIntegration *)

get_issue(tr, F, key) ==
    IF IssueFails(tr, F, key) THEN Exc("JIRAError", tr, << >>)
    ELSE Ret(key, tr, << >>)

get_available_issue_types(tr, F) ==
    IF "issue_types" \in F \/ "project" \in F THEN Caught(<< >>, tr, << >>)
    ELSE Ret(tr.site.types, tr, << >>)

subtask_keywords == << "sub", "podzadacha", "subtask", "sub-task" >>

IsSubtaskTypeName(name) == any_keyword_in(subtask_keywords, lower(name))

IsTaskTypeName(name) == contains(lower(name), "task")

find_subtask_type(tr, F) ==
    LET available_types == get_available_issue_types(tr, F).ret
        bySub == FirstTrue([i \in DOMAIN available_types |->
                                IsSubtaskTypeName(available_types[i])])
        byTask == FirstTrue([i \in DOMAIN available_types |->
                                IsTaskTypeName(available_types[i])])
    IN  IF bySub # 0 THEN Ret(available_types[bySub], tr, << >>)
        ELSE IF byTask # 0 THEN Ret(available_types[byTask], tr, << >>)
        ELSE IF available_types # << >> THEN Ret(available_types[1], tr, << >>)
        ELSE Ret(None, tr, << >>)

\* issue_type = None: the type is looked up
create_subtask(tr, F, parent_key, summary) ==
    LET issue_type == find_subtask_type(tr, F).ret
        new_issue == [summary |-> summary,
                      status |-> InitialStatus(tr.site.workflow)]
    IN  IF issue_type = None THEN Exc("ValueError", tr, << >>)
        ELSE IF get_issue(tr, F, parent_key).exc # "none"
             THEN Exc("JIRAError", tr, << >>)
        ELSE IF "create_issue" \in F THEN Exc("JIRAError", tr, << >>)
        ELSE Ret(KeyOf(Len(tr.subs) + 1),
                 [tr EXCEPT !.subs = Append(@, new_issue)], << >>)

get_available_transitions(tr, F, key) ==
    IF IssueFails(tr, F, key) \/ "transitions" \in F
    THEN Caught(<< >>, tr, << >>)
    ELSE LET current_status == StatusOf(tr, key)
             transitions == WorkflowOf(tr, current_status)
         IN  Ret([i \in 1..Len(transitions) |->
                    [id |-> transitions[i].id, name |-> transitions[i].name,
                     from |-> current_status, to |-> transitions[i].to]],
                 tr, << >>)

\* get_current_status with the handler of get_issue (log and re-raise)
get_current_status_reraise(tr, F, key) ==
    IF IssueFails(tr, F, key) THEN Exc("JIRAError", tr, << >>)
    ELSE Ret(StatusOf(tr, key), tr, << >>)

get_current_status(tr, F, key) ==
    IF IssueFails(tr, F, key) THEN Caught(None, tr, << >>)
    ELSE Ret(StatusOf(tr, key), tr, << >>)

\* self.jira.transition_issue(issue, id): the tracker refuses (JIRAError) an
\* id that is no transition of the issue's status
transition_issue(tr, F, key, id) ==
    LET available == WorkflowOf(tr, StatusOf(tr, key))
        i == FirstTrue([n \in DOMAIN available |-> available[n].id = id])
    IN  IF "transition_issue" \in F \/ i = 0 \/ key = ParentKey
        THEN Exc("JIRAError", tr, << [key |-> key, id |-> id, ok |-> FALSE] >>)
        ELSE Ret(TRUE, SetStatus(tr, key, available[i].to),
                 << [key |-> key, id |-> id, ok |-> TRUE] >>)

execute_transition(tr, F, key, transition_id) ==
    IF IssueFails(tr, F, key) THEN Caught(FALSE, tr, << >>)
    ELSE LET r == transition_issue(tr, F, key, transition_id)
         IN  IF r.exc # "none" THEN Caught(FALSE, tr, r.tlog)
             ELSE Ret(TRUE, r.tr, r.tlog)

\* the comparison of line 248 without .lower()
already_at_target_exact_case(current_status, target_status) ==
    current_status = target_status

\* line 248
already_at_target(current_status, target_status) ==
    lower(current_status) = lower(target_status)

\* lines 265-273
status_keywords(target_status) ==
    LET key == upper(target_status)
    IN  CASE key = "V RABOTE" ->
                << "vzyat v rabotu", "v rabote", "v rabotu", "nachat",
                   "start", "begin", "work" >>
          [] key = "NA REVYU" ->
                << "na revyu", "revyu", "review", "na proverku", "proverka" >>
          [] key = "DONE" -> << "done", "gotovo", "zaversheno", "vypolneno" >>
          [] key = "TO DO" -> << "to do", "k vypolneniyu", "otkryt" >>
          [] OTHER -> << lower(target_status) >>

\* "transitions" in F: get_available_transitions (line 243) catches the
\* error and gives [], the method's own lookup (line 244) succeeds
\* lines 260-262, 281-283, 287-289: r is the outcome of the
\* jira.transition_issue call
transition_done(r, tr) ==
    IF r.exc # "none" THEN Caught(FALSE, tr, r.tlog)
    ELSE Ret(TRUE, r.tr, r.tlog)

\* lines 257-293: the transition that is executed, 0 when none is found
chosen_transition(transitions, target_status) ==
    LET exact == FirstTrue([i \in DOMAIN transitions |->
                    lower(transitions[i].to) = lower(target_status)])
        keywords == status_keywords(target_status)
        byKeyword == FirstTrue([i \in DOMAIN transitions |->
                        \/ any_keyword_in(keywords, lower(transitions[i].name))
                        \/ any_keyword_in(keywords, lower(transitions[i].to))])
    IN  IF exact # 0 THEN exact ELSE byKeyword

\* lines 244-296, with the transitions line 243 got
transition_among(transitions, tr, F, key, target_status, chosen) ==
    IF IssueFails(tr, F, key) THEN Caught(FALSE, tr, << >>)
    ELSE IF already_at_target(StatusOf(tr, key), target_status)
         THEN Ret(TRUE, tr, << >>)
    ELSE IF transitions = << >> THEN Ret(FALSE, tr, << >>)
    ELSE IF chosen # 0
         THEN transition_done(
                transition_issue(tr, F, key, transitions[chosen].id), tr)
    ELSE Ret(FALSE, tr, << >>)

transition_with(transitions, tr, F, key, target_status) ==
    transition_among(transitions, tr, F, key, target_status,
                     chosen_transition(transitions, target_status))

transition_to_status(tr, F, key, target_status) ==
    transition_with(get_available_transitions(tr, F, key).ret, tr, F, key,
                    target_status)

update_issue_status(tr, F, key, status_name) ==
    transition_to_status(tr, F, key, status_name)

\* the comments of an issue are read nowhere: they are not kept
add_comment(tr, F, key) ==
    IF "add_comment" \in F \/ ~Exists(tr, key) THEN Caught(FALSE, tr, << >>)
    ELSE Ret(TRUE, tr, << >>)

\* the assignee of an issue is read nowhere: it is not kept
update_assignee(tr, F, key, assignee_name) ==
    IF IssueFails(tr, F, key) \/ "assign_issue" \in F
    THEN Caught(FALSE, tr, << >>)
    ELSE Ret(TRUE, tr, << >>)

\* maxResults of the search of find_subtask_by_number
FindMaxResults == 200

\* jira.search_issues('project = .. AND parent = ..', maxResults=n): the keys
\* of the parent's subtasks, the first n of them
search_subtasks(tr, maxResults) ==
    [i \in 1..(IF Len(tr.subs) < maxResults THEN Len(tr.subs)
               ELSE maxResults) |-> KeyOf(i)]

find_subtask_by_number(tr, F, parent_key, item_number) ==
    IF "search_issues" \in F THEN Caught(NoKey, tr, << >>)
    ELSE LET issues == search_subtasks(tr, FindMaxResults)
             i == FirstTrue([n \in DOMAIN issues |->
                    startswith(tr.subs[IndexOf(issues[n])].summary,
                               item_number \o ":")])
         IN  IF i # 0 THEN Ret(issues[i], tr, << >>)
             ELSE Ret(NoKey, tr, << >>)

\* summary.split(":")[0]: what stands before the first colon
before_colon(s) ==
    LET colons == { i \in 1..Len(s) : CharAt(s, i) = ":" }
    IN  IF colons = {} THEN s
        ELSE SubSeq(s, 1, (CHOOSE i \in colons : \A j \in colons : i <= j) - 1)

\* line 413
safe_summary(summary) ==
    IF contains(summary, ":") THEN before_colon(summary) \o ":"
    ELSE SubSeq(summary, 1, IF Len(summary) < 50 THEN Len(summary) ELSE 50)

\* jira.search_issues('... AND summary ~ "text"', maxResults=1): the tracker's
\* text search, taken as containment without regard to case
search_by_summary(tr, text) ==
    LET all == search_subtasks(tr, Len(tr.subs))
        i == FirstTrue([n \in DOMAIN all |->
                contains(lower(tr.subs[IndexOf(all[n])].summary),
                         lower(text))])
    IN  IF i = 0 THEN << >> ELSE << all[i] >>

\* item_number = "" stands for None
find_or_create_subtask(tr, F, parent_key, summary, item_number) ==
    LET byNumber == IF item_number # ""
                    THEN find_subtask_by_number(tr, F, parent_key,
                                                item_number).ret
                    ELSE NoKey
        issues == search_by_summary(tr, safe_summary(summary))
        parentFails == get_issue(tr, F, parent_key).exc # "none"
    IN  IF byNumber # NoKey
        THEN (IF parentFails THEN Exc("JIRAError", tr, << >>)
              ELSE Ret(byNumber,
                       update_assignee(tr, F, byNumber, "parent_reporter").tr,
                       << >>))
        \* lines 411-425: a JIRAError of the search or of get_issue is
        \* swallowed and a new subtask is created
        ELSE IF "search_issues" \notin F /\ issues # << >> /\ ~parentFails
        THEN Ret(issues[1],
                 update_assignee(tr, F, issues[1], "parent_reporter").tr,
                 << >>)
        ELSE LET r == create_subtask(tr, F, parent_key, summary)
                 swallowed == "search_issues" \in F
                                 \/ (issues # << >> /\ parentFails)
             IN  [r EXCEPT !.err = @ \/ swallowed]

-----------------------------------------------------------------------------
(* Calls of the JiraIntegration methods against a tracker *)

\* the agent part at rest
AgentIdle ==
    /\ variant = "sgr_yandex_agent"
    /\ toolkit_arg = NoToolkit
    /\ toolkit = {}
    /\ ctx = [n \in CounterNames |-> 0]
    /\ limits = [max_iterations |-> 1, max_searches |-> 0,
                 max_clarifications |-> 0]
    /\ offered = NotCalled
    /\ apc = "idle"

\* the client calls that fail during one method call: any of those the
\* method can come to make
Faults(ops) == SUBSET ops

Summaries == { "1.1: schema", "2: api" }

ItemNumbers == { "1.1", "2", "" }

TargetStatuses ==
    { "V RABOTE", "in progress", "Vzyat v rabotu", "NA REVYU", "Done" }

UpdateStatuses == { "V rabote", "In Review" }

TransitionIds == { 11, 21, 31, 41, 51 }

SubKeys(tr) == { KeyOf(i) : i \in 1..Len(tr.subs) }

\* the status the method's own lookup of the issue gives during a call with
\* faults F
Observed(tr, F, key) ==
    IF IssueFails(tr, F, key) THEN None ELSE StatusOf(tr, key)

Called(method, key, target, F, r) ==
    /\ jcall' = [method |-> method, key |-> key, target |-> target,
                 observed |-> Observed(tracker, F, key),
                 ret |-> r.ret, exc |-> r.exc, err |-> r.err,
                 ntrans |-> Len(r.tlog), unchanged |-> (r.tr = tracker)]
    /\ tracker' = r.tr
    /\ UNCHANGED exceptJira

\* a parent issue without subtasks, on any of the sites
JiraInit ==
    /\ AgentIdle
    /\ SyncIdle
    /\ ChoiceIdle
    /\ LlmIdle
    /\ StreamIdle
    /\ ScriptIdle
    /\ \E site \in Sites : tracker = [site |-> site, subs |-> << >>]
    /\ jcall = [method |-> "none"]

CallGetIssue ==
    \E F \in Faults({ "issue", "parent_issue" }),
       key \in SubKeys(tracker) \cup { ParentKey } :
        \E r \in { get_issue(tracker, F, key) } :
            Called("get_issue", key, "", F, r)

CallGetAvailableIssueTypes ==
    \E F \in Faults({ "issue_types", "project" }) :
        \E r \in { get_available_issue_types(tracker, F) } :
            Called("get_available_issue_types", ParentKey, "", F, r)

CallFindSubtaskType ==
    \E F \in Faults({ "issue_types", "project" }) :
        \E r \in { find_subtask_type(tracker, F) } :
            Called("find_subtask_type", ParentKey, "", F, r)

CallCreateSubtask ==
    /\ Len(tracker.subs) < MaxSubtasks
    /\ \E F \in Faults({ "issue_types", "project", "parent_issue",
                          "create_issue" }),
          summary \in Summaries :
        \E r \in { create_subtask(tracker, F, ParentKey, summary) } :
            Called("create_subtask", ParentKey, "", F, r)

CallGetAvailableTransitions ==
    \E F \in Faults({ "issue", "transitions" }), key \in SubKeys(tracker) :
        \E r \in { get_available_transitions(tracker, F, key) } :
            Called("get_available_transitions", key, "", F, r)

CallGetCurrentStatus ==
    \E F \in Faults({ "issue" }), key \in SubKeys(tracker) :
        \E r \in { get_current_status(tracker, F, key) } :
            Called("get_current_status", key, "", F, r)

CallExecuteTransition ==
    \E F \in Faults({ "issue", "transition_issue" }),
       key \in SubKeys(tracker), id \in TransitionIds :
        \E r \in { execute_transition(tracker, F, key, id) } :
            Called("execute_transition", key, "", F, r)

CallTransitionToStatus ==
    \E F \in Faults({ "issue", "transitions", "transition_issue" }),
       key \in SubKeys(tracker), target \in TargetStatuses :
        \E r \in { transition_to_status(tracker, F, key, target) } :
            Called("transition_to_status", key, target, F, r)

CallUpdateIssueStatus ==
    \E F \in Faults({ "issue", "transitions", "transition_issue" }),
       key \in SubKeys(tracker), target \in UpdateStatuses :
        \E r \in { update_issue_status(tracker, F, key, target) } :
            Called("update_issue_status", key, target, F, r)

CallAddComment ==
    \E F \in Faults({ "add_comment" }), key \in SubKeys(tracker) :
        \E r \in { add_comment(tracker, F, key) } :
            Called("add_comment", key, "", F, r)

CallUpdateAssignee ==
    \E F \in Faults({ "issue", "assign_issue" }), key \in SubKeys(tracker),
       name \in { None, "parent_reporter" } :
        \E r \in { update_assignee(tracker, F, key, name) } :
            Called("update_assignee", key, "", F, r)

CallFindSubtaskByNumber ==
    \E F \in Faults({ "search_issues" }), number \in ItemNumbers \ { "" } :
        \E r \in { find_subtask_by_number(tracker, F, ParentKey, number) } :
            Called("find_subtask_by_number", ParentKey, "", F, r)

CallFindOrCreateSubtask ==
    /\ Len(tracker.subs) < MaxSubtasks
    /\ \E F \in Faults({ "search_issues", "parent_issue", "issue",
                          "assign_issue", "issue_types", "create_issue" }),
          summary \in Summaries, number \in ItemNumbers :
        \E r \in { find_or_create_subtask(tracker, F, ParentKey, summary,
                                          number) } :
            Called("find_or_create_subtask", ParentKey, "", F, r)

JiraNext ==
    \/ CallGetIssue
    \/ CallGetAvailableIssueTypes
    \/ CallFindSubtaskType
    \/ CallCreateSubtask
    \/ CallGetAvailableTransitions
    \/ CallGetCurrentStatus
    \/ CallExecuteTransition
    \/ CallTransitionToStatus
    \/ CallUpdateIssueStatus
    \/ CallAddComment
    \/ CallUpdateAssignee
    \/ CallFindSubtaskByNumber
    \/ CallFindOrCreateSubtask

SpecJira == JiraInit /\ [][JiraNext]_vars

-----------------------------------------------------------------------------
(* Properties of the JiraIntegration methods *)

\* the last call was transition_to_status, its own lookup of the issue was
\* answered, and the status it read equals the target without regard to case
AtTargetCall(c) ==
    /\ c.method = "transition_to_status"
    /\ c.observed # None
    /\ lower(c.observed) = lower(c.target)

C6_NoOpAtTarget ==
    AtTargetCall(jcall) =>
        /\ jcall.exc = "none"
        /\ jcall.ret = TRUE
        /\ jcall.ntrans = 0
        /\ jcall.unchanged

C6_SecondCall ==
    (/\ AtTargetCall(jcall)
     /\ AtTargetCall(jcall')
     /\ jcall'.key = jcall.key) =>
        /\ jcall'.ret = TRUE
        /\ jcall'.ntrans = 0
        /\ tracker' = tracker

\* C6: when the status transition_to_status reads for the issue equals the
\* target case-insensitively, the call returns success, issues no transition
\* call and leaves the tracker as it was; a second such call right after
\* the first behaves the same.
C6_IdempotentAtTarget == [] C6_NoOpAtTarget /\ [][C6_SecondCall]_vars

\* a call that found the issue at "V rabote" with target "V RABOTE"
C6_Witness ==
    /\ AtTargetCall(jcall)
    /\ jcall.observed # jcall.target
    /\ jcall.ret = TRUE
    /\ jcall.ntrans = 0

\* what each method returns for "nothing": None, False or []
Sentinel(method) ==
    CASE method \in { "get_available_issue_types",
                      "get_available_transitions" } -> << >>
      [] method \in { "find_subtask_type", "get_current_status" } -> None
      [] method \in { "get_issue", "create_subtask", "find_subtask_by_number",
                      "find_or_create_subtask" } -> NoKey
      [] OTHER -> FALSE

ReturnedSentinel(c) == c.exc = "none" /\ c.ret = Sentinel(c.method)

\* the methods that log a tracker error and raise it again
Reraising == { "get_issue", "create_subtask", "find_or_create_subtask" }

\* C7 as stated: every method, when a client call of its own raises a
\* tracker error, returns its sentinel and does not raise.
C7_EveryMethodReturnsSentinel ==
    (jcall.method # "none" /\ jcall.err) => ReturnedSentinel(jcall)

\* C7, amended: every method except get_issue, create_subtask and
\* find_or_create_subtask returns its None/False/[] sentinel and does not
\* raise when a client call of its own raises a tracker error; these three
\* never return a sentinel then: an exception leaves them, or
\* find_or_create_subtask goes on to create the subtask and returns its key.
C7_SentinelExceptReraising ==
    (jcall.method # "none" /\ jcall.err) =>
        IF jcall.method \in Reraising
        THEN \/ jcall.exc # "none"
             \/ (jcall.method = "find_or_create_subtask"
                    /\ jcall.ret # NoKey)
        ELSE ReturnedSentinel(jcall)

\* transition_to_status whose transition_issue call was refused
C7_Witness ==
    /\ jcall.method = "transition_to_status"
    /\ jcall.err
    /\ jcall.ntrans = 1
    /\ jcall.exc = "none"
    /\ jcall.ret = FALSE

\* C27: whenever transition_to_status(key, target) returns success, the
\* status of the issue after the call equals target without regard to case,
\* the transition chosen by its target or by the keywords.
C27_SuccessMeansAtTarget ==
    (jcall.method = "transition_to_status" /\ jcall.exc = "none"
       /\ jcall.ret = TRUE) =>
        lower(StatusOf(tracker, jcall.key)) = lower(jcall.target)

-----------------------------------------------------------------------------
(***************************************************************************)
(* Part 3: the synchronisation script                                      *)
(*         (official-agent/scripts/sync_todo_to_jira.py).                  *)
(***************************************************************************)

\* the numbers and descriptions of the TODO file's item lines, in file order
TodoNumbers == << "1.1", "2", "2.1" >>

TodoDescriptions == << "schema", "api", "tests" >>

TodoStatuses == { "DONE", "IN_PROGRESS", "PENDING" }

TodoItem(i, status) ==
    [number |-> TodoNumbers[((i - 1) % Len(TodoNumbers)) + 1],
     status |-> status,
     description |-> TodoDescriptions[((i - 1) % Len(TodoDescriptions)) + 1]]

\* the item lists of up to MaxItems items
TodoLists ==
    UNION { { [i \in 1..n |-> TodoItem(i, statuses[i])] :
                statuses \in [1..n -> TodoStatuses] } : n \in 0..MaxItems }

\* the summary with the dots from 100 characters on, not from 101
sync_summary_dots_at_100(item) ==
    LET d == item.description
        head == item.number \o ": " \o
                    SubSeq(d, 1, IF Len(d) < 100 THEN Len(d) ELSE 100)
    IN  IF Len(d) >= 100 THEN head \o "..." ELSE head

\* lines 144-146
sync_summary(item) ==
    LET d == item.description
        head == item.number \o ": " \o
                    SubSeq(d, 1, IF Len(d) < 100 THEN Len(d) ELSE 100)
    IN  IF Len(d) > 100 THEN head \o "..." ELSE head

\* "revyu" in s or "review" in s, s in lower case
review_named(s) == contains(s, "revyu") \/ contains(s, "review")

\* lines 199-209
has_work(current_status) ==
    LET status_lower == strip(lower(current_status))
    IN  \/ status_lower = "v rabote"
        \/ startswith(status_lower, "v rabote")
        \/ contains(status_lower, "v rabote")
        \/ status_lower = "in progress"
        \/ contains(status_lower, "in progress")
        \/ status_lower = "work"
        \/ startswith(status_lower, "work")

\* what a stretch of the loop body comes to: the exception that left it, the
\* tracker after it, what it added to updated_count, and the transition_issue
\* calls it made
Phase(exc, tr, updated, tlog) ==
    [exc |-> exc, tr |-> tr, updated |-> updated, tlog |-> tlog]

\* lines 241-247: every transition to a review-named status is tried in
\* turn, from the i-th on, until one is executed
RECURSIVE execute_first_review(_, _, _, _, _)
execute_first_review(tr, F, key, transitions, i) ==
    IF i > Len(transitions) THEN [ok |-> FALSE, tr |-> tr, tlog |-> << >>]
    ELSE IF ~review_named(lower(transitions[i].to))
         THEN execute_first_review(tr, F, key, transitions, i + 1)
    ELSE LET r == execute_transition(tr, F, key, transitions[i].id)
         IN  IF r.ret THEN [ok |-> TRUE, tr |-> r.tr, tlog |-> r.tlog]
             ELSE LET rest == execute_first_review(r.tr, F, key, transitions,
                                                   i + 1)
                  IN  [rest EXCEPT !.tlog = r.tlog \o @]

\* the first transition of the subtask's status executed, whatever it leads to
sync_done_from_work_first_any(tr, F, key, transitions) ==
    IF transitions = << >> THEN Phase("none", tr, 0, << >>)
    ELSE LET r == execute_transition(tr, F, key, transitions[1].id)
         IN  Phase("none", r.tr, IF r.ret THEN 1 ELSE 0, r.tlog)

\* lines 211-230: the subtask is in a work status; the first transition to
\* a review-named status, if any, is executed
sync_done_from_work(tr, F, key, transitions) ==
    LET i == FirstTrue([n \in DOMAIN transitions |->
                            review_named(lower(transitions[n].to))])
    IN  IF i = 0 THEN Phase("none", tr, 0, << >>)
        ELSE LET r == execute_transition(tr, F, key, transitions[i].id)
             IN  Phase("none", r.tr, IF r.ret THEN 1 ELSE 0, r.tlog)

\* lines 243-250: what the attempts e at a review transition come to, after
\* the to-work transition_to_status call w
sync_done_reviewed(w, e) ==
    Phase("none", e.tr, IF e.ok THEN 1 ELSE 0, w.tlog \o e.tlog)

\* lines 232-252: w is the outcome of transition_to_status(key, "Взять в
\* работу")
sync_done_from_start(w, F, key) ==
    IF ~w.ret THEN Phase("none", w.tr, 0, w.tlog)
    ELSE sync_done_reviewed(w,
            execute_first_review(w.tr, F, key,
                get_available_transitions(w.tr, F, key).ret, 1))

\* lines 186-252: the item is DONE
sync_done(tr, F, key, current_status) ==
    IF current_status = None THEN Phase("AttributeError", tr, 0, << >>)
    ELSE IF review_named(lower(current_status)) THEN Phase("none", tr, 0, << >>)
    ELSE IF has_work(current_status)
    THEN sync_done_from_work(tr, F, key,
                             get_available_transitions(tr, F, key).ret)
    ELSE sync_done_from_start(
            transition_to_status(tr, F, key, "Vzyat v rabotu"), F, key)

\* line 257
in_progress_names == { "v rabote", "in progress", "v protsesse" }

\* line 258
status_variants == << "V RABOTE", "In Progress", "V rabote", "V protsesse" >>

\* lines 258-262: the variants are tried in turn, from the i-th on, until
\* transition_to_status succeeds
RECURSIVE try_variants(_, _, _, _)
\* r is the outcome of transition_to_status for the i-th variant
variant_tried(r, F, key, i) ==
    IF r.ret THEN Phase("none", r.tr, 1, r.tlog)
    ELSE [try_variants(r.tr, F, key, i + 1) EXCEPT !.tlog = r.tlog \o @]

try_variants(tr, F, key, i) ==
    IF i > Len(status_variants) THEN Phase("none", tr, 0, << >>)
    ELSE variant_tried(transition_to_status(tr, F, key, status_variants[i]),
                       F, key, i)

\* lines 254-262: the item is IN_PROGRESS
sync_in_progress(tr, F, key, current_status) ==
    IF current_status = None THEN Phase("AttributeError", tr, 0, << >>)
    ELSE IF lower(current_status) \in in_progress_names
         THEN Phase("none", tr, 0, << >>)
    ELSE try_variants(tr, F, key, 1)

\* the status update with a PENDING item handled as an IN_PROGRESS one
sync_status_pending_moves(tr, F, key, item) ==
    LET current_status == get_current_status(tr, F, key).ret
    IN  CASE item.status = "DONE" -> sync_done(tr, F, key, current_status)
          [] OTHER -> sync_in_progress(tr, F, key, current_status)

\* lines 183-267: the status of the subtask is brought to the item's
sync_status(tr, F, key, item) ==
    LET current_status == get_current_status(tr, F, key).ret
    IN  CASE item.status = "DONE" -> sync_done(tr, F, key, current_status)
          [] item.status = "IN_PROGRESS" ->
                sync_in_progress(tr, F, key, current_status)
          [] OTHER -> Phase("none", tr, 0, << >>)

\* a handler for tracker errors only
except_JIRAError(exc) == exc = "JIRAError"

\* `except Exception`: every exception of the loop body is one
except_Exception(exc) == exc \in { "JIRAError", "ValueError", "AttributeError" }

\* the tracker refuses a further subtask once the parent has as many as the
\* longest TODO file has items
Capacity(tr, F) ==
    IF Len(tr.subs) >= MaxItems THEN F \cup { "create_issue" } ELSE F

\* what the handling of one item comes to
Handled(outcome, exc, key, tr, created, updated, tlog) ==
    [outcome |-> outcome, exc |-> exc, key |-> key, tr |-> tr,
     created |-> created, updated |-> updated, tlog |-> tlog]

\* the outcome of an exception that reaches a handler of the loop body
Handler(exc, outcome) == IF except_Exception(exc) THEN outcome ELSE "crashed"

\* lines 269-273: st is the outcome of the status update; created_count
\* grows once more when no exception left it
sync_counted(st, key, new) ==
    IF st.exc # "none"
    THEN Handled(Handler(st.exc, "item_error"), st.exc, key, st.tr, new,
                 st.updated, st.tlog)
    ELSE Handled("processed", "none", key, st.tr, new + 1, st.updated,
                 st.tlog)

\* lines 178-270: the loop body after the subtask is found or created
sync_found(tr, F, key, is_new_issue, item) ==
    LET new == IF is_new_issue THEN 1 ELSE 0
        parent_issue == get_issue(tr, F, ParentKey)
    IN  IF parent_issue.exc # "none"
        THEN Handled(Handler(parent_issue.exc, "item_error"),
                     parent_issue.exc, key, tr, new, 0, << >>)
        ELSE sync_counted(
                sync_status(update_assignee(tr, F, key, "parent_reporter").tr,
                            F, key, item),
                key, new)

\* lines 161-176: c is the outcome of create_subtask
sync_created(c, tr, F, item) ==
    IF c.exc # "none"
    THEN Handled(Handler(c.exc, "find_create_error"), c.exc, NoKey, tr,
                 0, 0, << >>)
    ELSE sync_found(c.tr, F, c.ret, TRUE, item)

\* lines 142-273: the loop body
sync_item(tr, F, item) ==
    LET issue_key == find_subtask_by_number(tr, F, ParentKey, item.number).ret
    IN  IF issue_key # NoKey THEN sync_found(tr, F, issue_key, FALSE, item)
        ELSE sync_created(
                create_subtask(tr, Capacity(tr, F), ParentKey,
                               sync_summary(item)),
                tr, F, item)

SyncOps ==
    { "search_issues", "issue_types", "create_issue", "parent_issue", "issue",
      "assign_issue", "transitions", "transition_issue" }

SyncFaults == { F \in SUBSET SyncOps : Cardinality(F) <= MaxFaults }

\* the parent as an earlier run of the script may have left it
SyncTrackers ==
    UNION { { [site |-> site, subs |-> << >>] } \cup
            { [site |-> site,
               subs |-> << [summary |-> "1.1: schema", status |-> st] >>] :
                 st \in StatusesOf(site.workflow) } :
            site \in { x \in Sites : x.types # << >> } }

SyncInit ==
    /\ AgentIdle
    /\ ChoiceIdle
    /\ LlmIdle
    /\ StreamIdle
    /\ ScriptIdle
    /\ jcall = [method |-> "none"]
    /\ tracker \in SyncTrackers
    /\ todo_items \in TodoLists
    /\ spc = "start"
    /\ idx = 0
    /\ created_count = 0
    /\ updated_count = 0
    /\ slog = << >>

\* lines 113-136: the parent is fetched and the TODO file parsed
SyncStart ==
    /\ spc = "start"
    /\ \E F \in Faults({ "parent_issue" }), todo_exists \in BOOLEAN :
        IF get_issue(tracker, F, ParentKey).exc # "none" \/ ~todo_exists
        THEN spc' = "aborted" /\ idx' = idx
        ELSE spc' = "loop" /\ idx' = 1
    /\ UNCHANGED <<exceptSync, jiraVars, todo_items, created_count,
                   updated_count, slog>>

\* one turn of the loop of line 142
SyncItem ==
    /\ spc = "loop"
    /\ idx <= Len(todo_items)
    /\ \E F \in SyncFaults :
        \E r \in { sync_item(tracker, F, todo_items[idx]) } :
            /\ tracker' = r.tr
            /\ created_count' = created_count + r.created
            /\ updated_count' = updated_count + r.updated
            /\ slog' = Append(slog, [item |-> idx, outcome |-> r.outcome,
                                     exc |-> r.exc, key |-> r.key,
                                     tlog |-> r.tlog])
            /\ IF r.outcome = "crashed"
               THEN spc' = "crashed" /\ idx' = idx
               ELSE spc' = "loop" /\ idx' = idx + 1
    /\ UNCHANGED <<exceptSync, jcall, todo_items>>

\* line 275: the final summary is logged
SyncFinish ==
    /\ spc = "loop"
    /\ idx > Len(todo_items)
    /\ spc' = "done"
    /\ UNCHANGED <<exceptSync, jiraVars, todo_items, idx, created_count,
                   updated_count, slog>>

SyncNext == SyncStart \/ SyncItem \/ SyncFinish

SpecSync == SyncInit /\ [][SyncNext]_vars

\* the script is one sequential process: as long as it has not returned (and
\* no exception has ended it) the interpreter runs its next statement, which
\* moves the script's position; SyncNext has a step in exactly these states
SyncRuns ==
    /\ spc \in { "start", "loop" }
    /\ spc' \in { "loop", "done", "aborted", "crashed" }
    /\ idx' \in { idx, idx + 1, 1 }

SpecSyncFair == SpecSync /\ WF_<<spc, idx>>(SyncRuns)

-----------------------------------------------------------------------------
(* Properties of the synchronisation script *)

\* the items handled so far are the first idx - 1 items of the file, each
\* once and in file order; no exception has left the loop; at the final
\* summary every item of the file has been handled
C8_InFileOrderOnce ==
    /\ spc # "crashed"
    /\ spc \in { "loop", "done" } =>
          /\ idx \in 1..(Len(todo_items) + 1)
          /\ Len(slog) = idx - 1
          /\ \A i \in 1..Len(slog) : slog[i].item = i
    /\ spc = "done" => Len(slog) = Len(todo_items)

\* C8: once the parent is fetched and the TODO file parsed, the sync handles
\* the items in file order, each exactly once, whatever fails on an item
\* (search, creation, assignee update, status lookup, transition), and the
\* run ends by logging the final summary.
C8_SyncRunsThrough ==
    [] C8_InFileOrderOnce /\ ((spc = "loop") ~> (spc = "done"))

\* a finished run in which a failed item was followed by a processed one
C8_Witness ==
    /\ spc = "done"
    /\ \E i, j \in 1..Len(slog) :
          /\ i < j
          /\ slog[i].outcome \in { "find_create_error", "item_error" }
          /\ slog[j].outcome = "processed"

-----------------------------------------------------------------------------
(* The transitions the sync executes for an item *)

\* the step handles an item: the entry it adds to slog
Handles == spc = "loop" /\ Len(slog') = Len(slog) + 1

\* the transition_issue calls of the step that the tracker executed
Executed == SelectSeq(slog'[Len(slog')].tlog, LAMBDA c : c.ok)

\* the status of the item's subtask as the step starts: a subtask the step
\* creates starts in the initial status of the workflow
StatusBefore ==
    IF Exists(tracker, slog'[Len(slog')].key)
    THEN StatusOf(tracker, slog'[Len(slog')].key)
    ELSE InitialStatus(tracker.site.workflow)

\* the status the transition id leads to from the status from
TargetOf(from, id) ==
    LET available == WorkflowOf(tracker, from)
    IN  available[FirstTrue([n \in DOMAIN available |->
                                available[n].id = id])].to

\* the first transition of the status that leads to a review-named status
FirstReview(from) ==
    LET available == WorkflowOf(tracker, from)
    IN  available[FirstTrue([n \in DOMAIN available |->
                                review_named(lower(available[n].to))])].id

\* the pattern of the transitions of a DONE item
C23_DonePattern ==
    LET from == StatusBefore
        ex == Executed
    IN  IF review_named(lower(from)) THEN ex = << >>
        ELSE IF has_work(from)
        THEN ex = << >> \/ (Len(ex) = 1 /\ ex[1].id = FirstReview(from))
        ELSE \/ ex = << >>
             \/ /\ Len(ex) \in 1..2
                /\ has_work(TargetOf(from, ex[1].id))
                /\ Len(ex) = 2 =>
                      review_named(lower(
                          TargetOf(TargetOf(from, ex[1].id), ex[2].id)))

\* C23: for a DONE item the sync executes no transition when the subtask's
\* status is review-named; at most one, the first available one to a
\* review-named status, when the status is a work status; otherwise a
\* to-work transition first and a transition to a review-named status only
\* after it.
C23_DoneTransitions ==
    [][(Handles /\ todo_items[idx].status = "DONE") => C23_DonePattern]_vars

\* a DONE item whose subtask went from the initial status to work and on to
\* review
C23_Witness ==
    /\ slog # << >>
    /\ todo_items[slog[Len(slog)].item].status = "DONE"
    /\ Len(slog[Len(slog)].tlog) = 2
    /\ \A n \in 1..2 : slog[Len(slog)].tlog[n].ok
    /\ review_named(lower(StatusOf(tracker, slog[Len(slog)].key)))

\* the transitions an item's status allows
C24_Allowed ==
    CASE todo_items[idx].status = "PENDING" -> 0
      [] todo_items[idx].status = "IN_PROGRESS" ->
            IF lower(StatusBefore) \in in_progress_names THEN 0 ELSE 1
      [] OTHER -> 2

\* C24: while it handles one item the sync executes no transition for a
\* PENDING item, at most one for an IN_PROGRESS item and none when the
\* subtask is in an in-progress status already, and at most two for a DONE
\* item.
C24_TransitionsPerItem ==
    [][Handles => Len(Executed) <= C24_Allowed]_vars

\* an IN_PROGRESS item whose subtask was moved by one transition
C24_Witness ==
    /\ slog # << >>
    /\ todo_items[slog[Len(slog)].item].status = "IN_PROGRESS"
    /\ Len(slog[Len(slog)].tlog) = 1
    /\ slog[Len(slog)].tlog[1].ok
    /\ lower(StatusOf(tracker, slog[Len(slog)].key)) \in in_progress_names

-----------------------------------------------------------------------------

(* Subtasks and counts of the sync *)

\* the subtasks of the parent whose summary starts with "<number>:"
SubtasksOf(number) ==
    { i \in DOMAIN tracker.subs :
        startswith(tracker.subs[i].summary, number \o ":") }

\* C28: the sync is idempotent with respect to subtask creation: over runs
\* of sync_todo_to_jira on the same TODO list, runs in which a tracker search
\* fails included, the parent has at most one subtask whose summary starts
\* with "<number>:" for each item number.
C28_OneSubtaskPerNumber ==
    \A i \in DOMAIN todo_items :
        Cardinality(SubtasksOf(todo_items[i].number)) <= 1

\* the items handled so far for which a subtask was found or created and
\* whose handling ended without an error
Processed == { i \in DOMAIN slog : slog[i].outcome = "processed" }

\* the items handled so far for which a transition was executed
Transitioned ==
    { i \in DOMAIN slog :
        \E n \in DOMAIN slog[i].tlog : slog[i].tlog[n].ok }

\* C29: the created/found count of the final summary is the number of items
\* for which a subtask was found or created and whose handling ended without
\* an error, each counting once, its subtask new or not; the updated count
\* is the number of items for which a transition was executed.
C29_CountsOfSummary ==
    spc = "done" =>
        /\ created_count = Cardinality(Processed)
        /\ updated_count = Cardinality(Transitioned)

-----------------------------------------------------------------------------

(* Part 4. The model-choice tools: TaskAccessTool and ConfigModelTool *)

\* what yaml.safe_load gives: None, a mapping or a list; "missing": the file
\* is not there
MissingFile == [type |-> "missing"]

YamlNull == [type |-> "null"]

YamlMapping(items) == [type |-> "mapping", items |-> items]

YamlSequence(items) == [type |-> "sequence", items |-> items]

\* the keys of m among ks, with their values
Restrict(m, ks) == [k \in ks \cap DOMAIN m |-> m[k]]

\* mapping.get(key, default)
get(items, key, default) ==
    IF key \in DOMAIN items THEN items[key] ELSE default

\* an exception object: its class and what str(e) gives
Error(cls, msg) == [cls |-> cls, msg |-> msg]

\* the classes derived from Exception; asyncio.CancelledError derives from
\* BaseException only
ExceptionClasses ==
    { "TypeError", "ValueError", "ValidationError", "JSONDecodeError",
      "FileNotFoundError", "AttributeError", "APIConnectionError",
      "TimeoutError" }

\* `except Exception as e`
IsException(e) == e.cls \in ExceptionClasses

\* str(e): a JSONDecodeError appends the position to its message
str(e) ==
    IF e.cls = "JSONDecodeError"
    THEN e.msg \o ": line 1 column 1 (char 0)"
    ELSE e.msg

Returns(v) == [raised |-> FALSE, value |-> v]

Raises(e) == [raised |-> TRUE, exc |-> e]

ModelKinds == { "light", "heavy", "agent" }

ResultKinds == { "strict", "creative" }

-----------------------------------------------------------------------------
(* ConfigModelTool.__call__ *)

\* the object every error path returns
config_error(error_msg) ==
    [error |-> error_msg, base_url |-> "", model |-> "", api_key |-> "",
     max_tokens |-> 0, temperature |-> 0, system_prompt |-> ""]

config_key(model_kind) == "llm_" \o model_kind

\* a mutation of temperature_key: the strict temperature whatever the
\* result kind
temperature_key_strict(result_kind) == "temperature_" \o "strict"

temperature_key(result_kind) == "temperature_" \o result_kind

\* prompt_file.read_text(): the text of a prompt file, blanks and all
read_text(path) == " prompt " \o path \o " "

\* lines 128-136
\* a mutation of load_system_prompt: a missing prompt file gives a default
\* prompt
load_system_prompt_default(model_config, fs) ==
    LET system_prompt_path == get(model_config, "system_prompt_path", "")
    IN  IF system_prompt_path = "" THEN ""
        ELSE IF system_prompt_path \in fs
        THEN strip(read_text(system_prompt_path))
        ELSE "You are a helpful assistant"

load_system_prompt(model_config, fs) ==
    LET system_prompt_path == get(model_config, "system_prompt_path", "")
    IN  IF system_prompt_path # "" /\ system_prompt_path \in fs
        THEN strip(read_text(system_prompt_path))
        ELSE ""

\* lines 108-154 for the section the config has under config_key
config_of_section(node, fs, model_kind, result_kind) ==
    IF node.type = "null"
    THEN Raises(Error("TypeError",
                      "argument of type 'NoneType' is not iterable"))
    ELSE IF node.type = "sequence"
    THEN IF \E i \in 1..Len(node.items) :
                node.items[i] = temperature_key(result_kind)
         THEN Raises(Error("TypeError",
                  "list indices must be integers or slices, not str"))
         ELSE Returns(config_error(
                  "Temperature '" \o temperature_key(result_kind)
                  \o "' not found in " \o config_key(model_kind)))
    ELSE IF temperature_key(result_kind) \notin DOMAIN node.items
    THEN Returns(config_error(
             "Temperature '" \o temperature_key(result_kind)
             \o "' not found in " \o config_key(model_kind)))
    ELSE Returns(
             [base_url |-> get(node.items, "base_url", ""),
              model |-> get(node.items, "model", ""),
              api_key |-> get(node.items, "api_key", ""),
              max_tokens |-> get(node.items, "max_tokens", 0),
              temperature |-> node.items[temperature_key(result_kind)],
              system_prompt |-> load_system_prompt(node.items, fs)])

\* the body of the try statement, lines 68-154
config_model_try(cfg, fs, model_kind, result_kind) ==
    IF cfg.type = "missing"
    THEN Returns(config_error("Configuration file not found: config.yaml"))
    ELSE IF cfg.type = "null"
    THEN Raises(Error("TypeError",
                      "argument of type 'NoneType' is not iterable"))
    ELSE IF config_key(model_kind) \notin DOMAIN cfg.items
    THEN Returns(config_error(
             "Configuration section '" \o config_key(model_kind)
             \o "' not found in config.yaml"))
    ELSE config_of_section(cfg.items[config_key(model_kind)], fs,
                           model_kind, result_kind)

\* `except Exception as e`, lines 156-171
config_model_except(t) ==
    IF ~t.raised THEN t
    ELSE IF IsException(t.exc) THEN Returns(config_error(str(t.exc)))
    ELSE t

ConfigModelTool(cfg, fs, model_kind, result_kind) ==
    config_model_except(config_model_try(cfg, fs, model_kind, result_kind))

-----------------------------------------------------------------------------
(* LLMConfig, LLMService.call_llm and TaskAccessTool *)

\* LLMConfig(**llm_config): api_key is required, temperature lies in
\* [0.0, 1.0] (temperatures are counted in tenths), the rest has defaults
LLMConfig(items) ==
    IF "api_key" \notin DOMAIN items
    THEN Raises(Error("ValidationError",
                      "1 validation error for LLMConfig: api_key"))
    ELSE IF get(items, "temperature", 3) \notin 0..10
    THEN Raises(Error("ValidationError",
                      "1 validation error for LLMConfig: temperature"))
    ELSE Returns(
             [api_key |-> items["api_key"],
              base_url |-> get(items, "base_url",
                               "https://api.openai.com/v1"),
              model |-> get(items, "model", "gpt-4o-mini"),
              max_tokens |-> get(items, "max_tokens", 1000),
              temperature |-> get(items, "temperature", 3),
              proxy |-> get(items, "proxy", None)])

\* LLMConfig.from_yaml
from_yaml(cfg) ==
    IF cfg.type = "missing"
    THEN Raises(Error("FileNotFoundError",
                      "Configuration file not found: config.yaml"))
    ELSE IF cfg.type = "null"
    THEN Raises(Error("AttributeError",
                      "'NoneType' object has no attribute 'get'"))
    ELSE IF "llm" \notin DOMAIN cfg.items
    THEN LLMConfig(<< >>)
    ELSE IF cfg.items["llm"].type # "mapping"
    THEN Raises(Error("TypeError",
                      "argument after ** must be a mapping"))
    ELSE LLMConfig(cfg.items["llm"].items)

\* TaskAccessTool.__init__: the service is there when the import worked
TaskAccessTool_init(imported) ==
    [imported |-> imported,
     service |-> IF imported THEN "LLMService" ELSE "None",
     instrumental_config |-> [loaded |-> FALSE]]

\* TaskAccessTool._get_instrumental_config
get_instrumental_config(acc, cfg) ==
    IF ~acc.imported
    THEN Raises(Error("ValueError", "LLMConfig is not available"))
    ELSE IF acc.instrumental_config.loaded
    THEN Returns(acc.instrumental_config.value)
    ELSE from_yaml(cfg)

\* parsed.model_dump_json(): the fields in the order of the class
model_dump_json(parsed) ==
    << <<"reasoning", parsed.reasoning>>,
       <<"model_kind", parsed.model_kind>>,
       <<"result_kind", parsed.result_kind>> >>

json_value(text, key) ==
    text[CHOOSE i \in 1..Len(text) : text[i][1] = key][2]

\* PromptAnalysisResult.model_validate_json
model_validate_json(text) ==
    IF \A key \in { "reasoning", "model_kind", "result_kind" } :
           \E i \in 1..Len(text) : text[i][1] = key
    THEN IF /\ json_value(text, "model_kind") \in ModelKinds
            /\ json_value(text, "result_kind") \in ResultKinds
         THEN Returns([reasoning |-> json_value(text, "reasoning"),
                       model_kind |-> json_value(text, "model_kind"),
                       result_kind |-> json_value(text, "result_kind")])
         ELSE Raises(Error("ValidationError",
                  "1 validation error for PromptAnalysisResult"))
    ELSE Raises(Error("ValidationError",
             "1 validation error for PromptAnalysisResult"))

\* LLMService.call_llm with a response_format: what the provider raises is
\* logged and raised again, an answer that was not parsed is a ValueError
call_llm(provider) ==
    IF provider.kind = "raise" THEN Raises(provider.exc)
    ELSE IF provider.kind = "refusal"
    THEN Raises(Error("ValueError", "Empty parsed response from LLM"))
    ELSE Returns(model_dump_json(provider.parsed))

\* the object every error path of TaskAccessTool returns
fallback(error_msg, reasoning) ==
    [error |-> error_msg, reasoning |-> reasoning, model_kind |-> "heavy",
     result_kind |-> "strict"]

AnalysisPromptPath == "prompts/prompt_analysis_system.txt"

DefaultAnalysisPrompt == "You are an expert in analyzing LLM prompts"

\* lines 148-171
analysis_system_prompt(fs) ==
    IF AnalysisPromptPath \in fs THEN read_text(AnalysisPromptPath)
    ELSE DefaultAnalysisPrompt

\* what one call of the tool leaves: what it returned or raised, the
\* instance, and whether it came to call the model and what that call did
Outcome(out, acc, llm) == [out |-> out, access |-> acc, llm |-> llm]

NotReached == [raised |-> FALSE, value |-> << >>]

\* the handlers of lines 213-236
task_access_except(e) ==
    IF e.cls = "JSONDecodeError"
    THEN Returns(fallback(
             "Invalid JSON response from instrumental model: " \o str(e),
             "JSON parsing failed: " \o str(e)))
    ELSE IF IsException(e)
    THEN Returns(fallback(str(e), "Analysis failed: " \o str(e)))
    ELSE Raises(e)

\* lines 196-211
task_access_parsed(v) ==
    IF v.raised THEN task_access_except(v.exc)
    ELSE Returns([reasoning |-> v.value.reasoning,
                  model_kind |-> v.value.model_kind,
                  result_kind |-> v.value.result_kind])

\* lines 182-211 with the handlers
task_access_analysed(acc, r) ==
    IF r.raised THEN Outcome(task_access_except(r.exc), acc, r)
    ELSE Outcome(task_access_parsed(model_validate_json(r.value)), acc, r)

\* lines 129-236
task_access_configured(acc, c, provider) ==
    IF c.raised
    THEN Outcome(Returns(fallback(
                     "Failed to load instrumental model config: "
                     \o str(c.exc),
                     "Configuration loading failed")),
                 acc, NotReached)
    ELSE task_access_analysed(
             [acc EXCEPT !.instrumental_config =
                             [loaded |-> TRUE, value |-> c.value]],
             call_llm(provider))

\* TaskAccessTool.__call__
TaskAccessTool(acc, cfg, provider) ==
    IF acc.service = "None" /\ ~acc.imported
    THEN Outcome(Returns(fallback(
                     "LLMService is not available: "
                     \o "No module named 'llm_service'",
                     "Service not available")),
                 acc, NotReached)
    ELSE task_access_configured(
             [acc EXCEPT !.service = "LLMService"],
             get_instrumental_config(acc, cfg), provider)

-----------------------------------------------------------------------------
(* Calls of the two tools on a config directory *)

\* config.yaml sections of a model kind; temperatures in tenths
FullSection(kind) ==
    [temperature_strict |->
         CASE kind = "light" -> 1 [] kind = "heavy" -> 2 [] OTHER -> 3,
     temperature_creative |->
         CASE kind = "light" -> 9 [] kind = "heavy" -> 8 [] OTHER -> 7,
     base_url |-> "http://" \o kind \o ".local/v1",
     model |-> kind \o "-model",
     api_key |-> "key-" \o kind,
     max_tokens |->
         CASE kind = "light" -> 1000 [] kind = "heavy" -> 4000
           [] OTHER -> 8000,
     system_prompt_path |-> "prompts/" \o kind \o ".txt"]

SectionKeys ==
    { DOMAIN FullSection("light"),
      { "temperature_strict", "model", "system_prompt_path" },
      { "temperature_creative", "base_url", "api_key", "max_tokens" },
      { "base_url", "model" } }

Absent == [type |-> "absent"]

ModelSections(kind) ==
    { Absent, YamlNull,
      YamlSequence(<< "temperature_strict", "base_url" >>) } \cup
    { YamlMapping(Restrict(FullSection(kind), ks)) : ks \in SectionKeys }

LlmSections ==
    { Absent,
      YamlMapping([model |-> "gpt-4o-mini"]),
      YamlMapping([api_key |-> "key-llm", temperature |-> 3]) }

\* the mapping of the sections that are there
ConfigOf(sections) ==
    YamlMapping([k \in { n \in DOMAIN sections :
                           sections[n].type # "absent" } |-> sections[k]])

Configs ==
    { MissingFile, YamlNull } \cup
    { ConfigOf([llm |-> l, llm_light |-> a, llm_heavy |-> b,
                llm_agent |-> c]) :
        l \in LlmSections, a \in ModelSections("light"),
        b \in ModelSections("heavy"),
        c \in { Absent, YamlMapping(FullSection("agent")) } }

PromptFiles ==
    { AnalysisPromptPath } \cup
    { FullSection(kind).system_prompt_path : kind \in ModelKinds }

\* what the provider does with one request
ProviderErrors ==
    { Error("APIConnectionError", "Connection error."),
      Error("JSONDecodeError", "Expecting value"),
      Error("TimeoutError", ""),
      Error("CancelledError", "") }

ProviderOutcomes ==
    { [kind |-> "parsed",
       parsed |-> [reasoning |-> "a short question", model_kind |-> m,
                   result_kind |-> r]] :
        m \in ModelKinds, r \in ResultKinds } \cup
    { [kind |-> "refusal"] } \cup
    { [kind |-> "raise", exc |-> e] : e \in ProviderErrors }

ChoiceInit ==
    /\ AgentIdle
    /\ JiraIdle
    /\ SyncIdle
    /\ LlmIdle
    /\ StreamIdle
    /\ ScriptIdle
    /\ config \in Configs
    /\ files \in { {}, PromptFiles }
    /\ \E imported \in BOOLEAN : access = TaskAccessTool_init(imported)
    /\ tcall = [tool |-> "none"]

\* the runtime builds a tool instance for the call the model asked for
NewTaskAccessTool ==
    /\ access' = TaskAccessTool_init(access.imported)
    /\ UNCHANGED <<exceptChoice, config, files, tcall>>

CallTaskAccessTool ==
    /\ \E provider \in ProviderOutcomes :
        \E r \in { TaskAccessTool(access, config, provider) } :
            /\ access' = r.access
            /\ tcall' = [tool |-> "TaskAccessTool", model_kind |-> "",
                         result_kind |-> "",
                         system_prompt |-> analysis_system_prompt(files),
                         llm |-> r.llm, out |-> r.out]
    /\ UNCHANGED <<exceptChoice, config, files>>

CallConfigModelTool ==
    /\ \E model_kind \in ModelKinds, result_kind \in ResultKinds :
        tcall' = [tool |-> "ConfigModelTool", model_kind |-> model_kind,
                  result_kind |-> result_kind, system_prompt |-> "",
                  llm |-> NotReached,
                  out |-> ConfigModelTool(config, files, model_kind,
                                          result_kind)]
    /\ UNCHANGED <<exceptChoice, config, files, access>>

ChoiceNext == NewTaskAccessTool \/ CallTaskAccessTool \/ CallConfigModelTool

SpecChoice == ChoiceInit /\ [][ChoiceNext]_vars

-----------------------------------------------------------------------------
(* Properties of the model-choice tools *)

\* the classification call was made and raised
ClassificationRaised(c) == c.tool = "TaskAccessTool" /\ c.llm.raised

\* C9: when the classification call raises an exception of any type, the
\* tool does not raise and returns model_kind "heavy", result_kind "strict"
\* and an error field that is a non-empty string.
C9_FallbackOnAnyException ==
    ClassificationRaised(tcall) =>
        /\ ~tcall.out.raised
        /\ tcall.out.value.model_kind = "heavy"
        /\ tcall.out.value.result_kind = "strict"
        /\ "error" \in DOMAIN tcall.out.value
        /\ tcall.out.value.error # ""

\* the config has the section of the model kind, a mapping, and the section
\* has the temperature of the result kind
HasTemperature(cfg, model_kind, result_kind) ==
    /\ cfg.type = "mapping"
    /\ ("llm_" \o model_kind) \in DOMAIN cfg.items
    /\ cfg.items["llm_" \o model_kind].type = "mapping"
    /\ ("temperature_" \o result_kind)
           \in DOMAIN cfg.items["llm_" \o model_kind].items

C10_Values(c, r) ==
    LET section == config.items["llm_" \o c.model_kind].items
    IN  /\ "error" \notin DOMAIN r
        /\ r.temperature = section["temperature_" \o c.result_kind]
        /\ r.base_url = get(section, "base_url", "")
        /\ r.model = get(section, "model", "")
        /\ r.api_key = get(section, "api_key", "")
        /\ r.max_tokens = get(section, "max_tokens", 0)

C10_Error(r) ==
    /\ "error" \in DOMAIN r
    /\ r.error # ""
    /\ r.base_url = "" /\ r.model = "" /\ r.api_key = ""
    /\ r.system_prompt = ""
    /\ r.max_tokens = 0 /\ r.temperature = 0

C10_Result ==
    tcall.tool = "ConfigModelTool" =>
        /\ ~tcall.out.raised
        /\ IF HasTemperature(config, tcall.model_kind, tcall.result_kind)
           THEN C10_Values(tcall, tcall.out.value)
           ELSE C10_Error(tcall.out.value)

C10_SameCall ==
    ( /\ tcall.tool = "ConfigModelTool"
      /\ tcall'.tool = "ConfigModelTool"
      /\ tcall'.model_kind = tcall.model_kind
      /\ tcall'.result_kind = tcall.result_kind )
        => tcall'.out = tcall.out

PromptFileMissing(c) ==
    /\ c.tool = "ConfigModelTool"
    /\ HasTemperature(config, c.model_kind, c.result_kind)
    /\ get(config.items["llm_" \o c.model_kind].items,
           "system_prompt_path", "") \notin files \cup { "" }

\* C11 as stated: when the prompt file the section names is missing, the
\* tool returns the error object: an error, empty strings and zeros.
C11_MissingPromptIsError ==
    PromptFileMissing(tcall) =>
        ~tcall.out.raised /\ C10_Error(tcall.out.value)

\* C11, amended: when the prompt file the section names is missing, the tool
\* returns no error: the section's values with an empty system_prompt.
C11_MissingPromptIsEmpty ==
    PromptFileMissing(tcall) =>
        /\ ~tcall.out.raised
        /\ C10_Values(tcall, tcall.out.value)
        /\ tcall.out.value.system_prompt = ""

C11_Witness ==
    /\ PromptFileMissing(tcall)
    /\ tcall.model_kind = "heavy"
    /\ "error" \notin DOMAIN tcall.out.value
    /\ tcall.out.value.model = "heavy-model"
    /\ tcall.out.value.system_prompt = ""

-----------------------------------------------------------------------------
(* Part 5. The LLM call services and their caches *)

\* LLMService() of the model-choice services: self._clients = {}
new_LLMService == << >>

\* dict[key] = value
put(dict, key, value) ==
    [k \in DOMAIN dict \cup { key } |-> IF k = key THEN value ELSE dict[k]]

\* the key of LLMService.get_client, which is the base URL
client_cache_key(base_url, model, api_key) == base_url

\* LLMService.get_client of the model-choice service: the service's
\* _clients after the call, the clients constructed so far, and the index
\* of the client returned
get_client(service_clients, all_clients, cfg) ==
    LET cache_key == client_cache_key(cfg.base_url, cfg.model, cfg.api_key)
    IN  IF cache_key \notin DOMAIN service_clients
        THEN [service_clients |->
                  put(service_clients, cache_key, Len(all_clients) + 1),
              all_clients |->
                  Append(all_clients,
                         [class |-> "AsyncOpenAI", base_url |-> cfg.base_url,
                          api_key |-> cfg.api_key]),
              cache_key |-> cache_key,
              client |-> Len(all_clients) + 1]
        ELSE [service_clients |-> service_clients,
              all_clients |-> all_clients,
              cache_key |-> cache_key,
              client |-> service_clients[cache_key]]

\* get_llm_service of llm_call_tool: the global after the call and the
\* service instances there are
get_llm_service(global, instances) ==
    IF global = 0
    THEN [llm_service |-> Len(instances) + 1,
          services |-> Append(instances, new_LLMService)]
    ELSE [llm_service |-> global, services |-> instances]

\* LLMService._get_model_key of the core service
get_model_key(url, model) == url \o ":" \o model

\* lines 60-72 of the core call_llm: the configuration is added to the cache
\* on the first call with its key
add_model_to_cache(cache, cfg) ==
    IF get_model_key(cfg.base_url, cfg.model) \in DOMAIN cache THEN cache
    ELSE put(cache, get_model_key(cfg.base_url, cfg.model),
             [url |-> cfg.base_url, model |-> cfg.model,
              api_key |-> cfg.api_key])

\* the configurations the calls are made with
LlmConfigs ==
    { [base_url |-> b, model |-> m.model, api_key |-> m.api_key] :
        b \in { "http://a/v1", "http://b/v1" },
        m \in { [model |-> "m1", api_key |-> "k1"],
                [model |-> "m2", api_key |-> "k2"] } }

Call(service, tool, instance, cfg, cache_key, client) ==
    [service |-> service, tool |-> tool, instance |-> instance,
     base_url |-> cfg.base_url, model |-> cfg.model,
     api_key |-> cfg.api_key, cache_key |-> cache_key, client |-> client]

LlmInit ==
    /\ AgentIdle
    /\ JiraIdle
    /\ SyncIdle
    /\ ChoiceIdle
    /\ StreamIdle
    /\ ScriptIdle
    /\ services = << >>
    /\ llm_service = 0
    /\ task_tools = << >>
    /\ clients = << >>
    /\ models_cache = << >>
    /\ lcalls = << >>

\* TaskAccessTool.__init__: every instance of the tool builds an LLMService;
\* cfg is the llm section the instance comes to load
BuildTaskAccessTool ==
    /\ Len(task_tools) < MaxTools
    /\ \E cfg \in LlmConfigs :
        task_tools' = Append(task_tools,
                             [service |-> Len(services) + 1, config |-> cfg])
    /\ services' = Append(services, new_LLMService)
    /\ UNCHANGED <<exceptLlm, llm_service, clients, models_cache, lcalls>>

\* TaskAccessTool.__call__: self._service.call_llm
TaskAccessToolCalls ==
    /\ Len(lcalls) < MaxCalls
    /\ \E t \in DOMAIN task_tools :
        \E g \in { get_client(services[task_tools[t].service], clients,
                              task_tools[t].config) } :
            /\ services' = [services EXCEPT ![task_tools[t].service] =
                                                g.service_clients]
            /\ clients' = g.all_clients
            /\ lcalls' = Append(lcalls,
                   Call("choice", "TaskAccessTool", task_tools[t].service,
                        task_tools[t].config, g.cache_key, g.client))
    /\ UNCHANGED <<exceptLlm, llm_service, task_tools, models_cache>>

\* LLMCallTool.__call__: get_llm_service().call_llm
LLMCallToolCalls ==
    /\ Len(lcalls) < MaxCalls
    /\ \E cfg \in LlmConfigs :
        \E s \in { get_llm_service(llm_service, services) } :
            \E g \in { get_client(s.services[s.llm_service], clients, cfg) } :
                /\ llm_service' = s.llm_service
                /\ services' = [s.services EXCEPT ![s.llm_service] =
                                                      g.service_clients]
                /\ clients' = g.all_clients
                /\ lcalls' = Append(lcalls,
                       Call("choice", "LLMCallTool", s.llm_service, cfg,
                            g.cache_key, g.client))
    /\ UNCHANGED <<exceptLlm, task_tools, models_cache>>

\* BaseLLMCallTool.__call__: LLMService.call_llm of the core service, which
\* opens an httpx.AsyncClient of its own for the request
BaseLLMCallToolCalls ==
    /\ Len(lcalls) < MaxCalls
    /\ \E cfg \in LlmConfigs :
        /\ models_cache' = add_model_to_cache(models_cache, cfg)
        /\ clients' = Append(clients,
               [class |-> "httpx.AsyncClient", base_url |-> cfg.base_url,
                api_key |-> cfg.api_key])
        /\ lcalls' = Append(lcalls,
               Call("core", "BaseLLMCallTool", 0, cfg,
                    get_model_key(cfg.base_url, cfg.model),
                    Len(clients) + 1))
    /\ UNCHANGED <<exceptLlm, services, llm_service, task_tools>>

LlmNext ==
    \/ BuildTaskAccessTool
    \/ TaskAccessToolCalls
    \/ LLMCallToolCalls
    \/ BaseLLMCallToolCalls

SpecLLM == LlmInit /\ [][LlmNext]_vars

-----------------------------------------------------------------------------
(* Properties of the LLM call services *)

\* C12: in both services the cache key is the base URL alone: two calls of
\* one service with the same base URL, whatever their model and api_key,
\* hit the same cache entry and use the same HTTP client.
C12_CacheKeyIsBaseUrl ==
    \A i, j \in DOMAIN lcalls :
        ( /\ lcalls[i].service = lcalls[j].service
          /\ lcalls[i].instance = lcalls[j].instance
          /\ lcalls[i].base_url = lcalls[j].base_url )
            => /\ lcalls[i].cache_key = lcalls[j].cache_key
               /\ lcalls[i].client = lcalls[j].client

\* C13: at most one model-choice LLMService is ever constructed, lazily on
\* first use, and every call of TaskAccessTool and of LLMCallTool uses it.
C13_OneServiceInstance ==
    /\ Len(services) <= 1
    /\ lcalls = << >> => services = << >>
    /\ \A i, j \in DOMAIN lcalls :
        (lcalls[i].service = "choice" /\ lcalls[j].service = "choice")
            => lcalls[i].instance = lcalls[j].instance

-----------------------------------------------------------------------------
(* Part 6. call_llm of the model-choice service: streaming and the answer *)

(***************************************************************************)
(* A text is a sequence of atoms: a word, or the k-th of n parts of the    *)
(* JSON text of a value.  json.loads gives the value back when the text is *)
(* the n parts of one value in order, and raises otherwise.  A JSON value  *)
(* is tagged with its type: "null", "str" (a text), "list", "dict" (a      *)
(* function from keys to values).                                          *)
(***************************************************************************)

Word(w) == [a |-> "word", w |-> w]

JsonPart(value, k, n) == [a |-> "json", of |-> value, part |-> k, parts |-> n]

JsonNull == [t |-> "null"]

JsonStr(text) == [t |-> "str", text |-> text]

JsonList(elems) == [t |-> "list", elems |-> elems]

JsonDict(items) == [t |-> "dict", items |-> items]

\* json.dumps(value)
json_dumps(value) == << JsonPart(value, 1, 1) >>

\* json.loads(text)
json_loads(text) ==
    IF /\ text # << >>
       /\ text[1].a = "json"
       /\ Len(text) = text[1].parts
       /\ \A i \in 1..Len(text) :
             /\ text[i].a = "json"
             /\ text[i].of = text[1].of
             /\ text[i].parts = text[1].parts
             /\ text[i].part = i
    THEN Returns(text[1].of)
    ELSE Raises(Error("JSONDecodeError", "Expecting value"))

Blank == Word(" ")

\* text.strip()
strip_text(text) ==
    LET inked == { i \in 1..Len(text) : text[i] # Blank }
    IN  IF inked = {} THEN << >>
        ELSE SubSeq(text, CHOOSE i \in inked : \A j \in inked : i <= j,
                          CHOOSE i \in inked : \A j \in inked : i >= j)

\* bool(value)
truthy(value) ==
    CASE value.t = "str" -> value.text # << >>
      [] value.t = "list" -> value.elems # << >>
      [] value.t = "dict" -> DOMAIN value.items # {}
      [] OTHER -> FALSE

\* payload.get(key)
payload_get(payload, key) == get(payload.items, key, JsonNull)

\* _extract_answer_from_payload without the decoding of a string under
\* "response"
RECURSIVE extract_answer_undecoded(_)
extract_answer_undecoded(payload) ==
    IF payload.t # "dict" THEN JsonNull
    ELSE IF payload_get(payload, "tool_name_discriminator")
                = JsonStr(<< Word("FinalAnswerTool") >>)
    THEN payload_get(payload, "answer")
    ELSE IF /\ truthy(payload_get(payload, "answer"))
            /\ truthy(payload_get(payload, "completed_steps"))
    THEN payload_get(payload, "answer")
    ELSE IF payload_get(payload, "response").t = "dict"
    THEN extract_answer_undecoded(payload_get(payload, "response"))
    ELSE JsonNull

RECURSIVE extract_answer_from_payload(_)

\* a mutation of extract_from_decoded: what json.loads gave is searched
\* without decoding a string again
extract_from_decoded_once(nested) == extract_answer_undecoded(nested)

\* lines 228-229: what json.loads gave is searched like the payload
extract_from_decoded(nested) == extract_answer_from_payload(nested)

\* lines 223-230: the string under "response" is decoded
extract_from_string(text) ==
    IF json_loads(text).raised THEN JsonNull
    ELSE IF json_loads(text).value.t = "dict"
    THEN extract_from_decoded(json_loads(text).value)
    ELSE JsonNull

\* _extract_answer_from_payload
extract_answer_from_payload(payload) ==
    IF payload.t # "dict" THEN JsonNull
    ELSE IF payload_get(payload, "tool_name_discriminator")
                = JsonStr(<< Word("FinalAnswerTool") >>)
    THEN payload_get(payload, "answer")
    ELSE IF /\ truthy(payload_get(payload, "answer"))
            /\ truthy(payload_get(payload, "completed_steps"))
    THEN payload_get(payload, "answer")
    ELSE IF payload_get(payload, "response").t = "dict"
    THEN extract_answer_from_payload(payload_get(payload, "response"))
    ELSE IF payload_get(payload, "response").t = "str"
    THEN extract_from_string(payload_get(payload, "response").text)
    ELSE JsonNull

\* _try_parse_json: the dict the text is the JSON text of, or None
try_parse_json(text) ==
    IF text = << >> \/ strip_text(text) = << >> THEN JsonNull
    ELSE IF json_loads(text).raised THEN JsonNull
    ELSE IF json_loads(text).value.t = "dict" THEN json_loads(text).value
    ELSE JsonNull

\* lines 241-248: the first answer found in the arguments of a tool call,
\* from the i-th call on
RECURSIVE answer_of_tool_calls(_, _)
answer_of_tool_calls(calls, i) ==
    IF i > Len(calls) THEN JsonNull
    ELSE IF /\ truthy(try_parse_json(calls[i].arguments))
            /\ truthy(extract_answer_from_payload(
                          try_parse_json(calls[i].arguments)))
    THEN extract_answer_from_payload(try_parse_json(calls[i].arguments))
    ELSE answer_of_tool_calls(calls, i + 1)

\* "".join(parts)
join(parts) ==
    LET joined[i \in 0..Len(parts)] ==
            IF i = 0 THEN << >> ELSE joined[i - 1] \o parts[i]
    IN  joined[Len(parts)]

\* lines 250-261
answer_of_text(combined_text) ==
    IF combined_text = << >>
    THEN Raises(Error("ValueError", "Empty response from LLM"))
    ELSE IF /\ truthy(try_parse_json(combined_text))
            /\ truthy(extract_answer_from_payload(
                          try_parse_json(combined_text)))
    THEN Returns(extract_answer_from_payload(try_parse_json(combined_text)))
    ELSE Returns(JsonStr(combined_text))

\* lines 241-261: what the plain-text path returns
plain_answer(calls, parts) ==
    IF truthy(answer_of_tool_calls(calls, 1))
    THEN Returns(answer_of_tool_calls(calls, 1))
    ELSE answer_of_text(strip_text(join(parts)))

-----------------------------------------------------------------------------
(* The chunk loop of call_llm *)

\* a chunk of the stream: choices is FALSE for a chunk without choices; the
\* content is << >> for None; a tool call carries its id ("" for None), its
\* index, and the name and the fragment of the arguments of its function
Chunk(content, tool_calls) ==
    [choices |-> TRUE, content |-> content, tool_calls |-> tool_calls]

NoChoices == [choices |-> FALSE, content |-> << >>, tool_calls |-> << >>]

ToolCall(id, name, arguments) ==
    [id |-> id, index |-> 0, name |-> name, arguments |-> arguments]

\* line 198: the id of the tool call, or its index when it has none
call_id_of(tool_call) ==
    IF tool_call.id # "" THEN tool_call.id
    ELSE IF tool_call.index = 0 THEN "0" ELSE "1"

\* lines 199-208 for one tool call: setdefault and the growth of the
\* arguments
store_tool_call(stored, tool_call) ==
    LET at == FirstTrue([i \in DOMAIN stored |->
                            stored[i].call_id = call_id_of(tool_call)])
    IN  IF at = 0
        THEN Append(stored, [call_id |-> call_id_of(tool_call),
                             name |-> tool_call.name,
                             arguments |-> tool_call.arguments])
        ELSE [stored EXCEPT ![at].arguments = @ \o tool_call.arguments]

\* lines 192-208: the tool calls of a chunk, from the i-th on
RECURSIVE store_tool_calls(_, _, _)
store_tool_calls(stored, tool_calls, i) ==
    IF i > Len(tool_calls) THEN stored
    ELSE store_tool_calls(store_tool_call(stored, tool_calls[i]),
                          tool_calls, i + 1)

\* streaming_generator.add_chunk(event.chunk): the chunk as it came
add_chunk(events, n, chunk) ==
    Append(events, [chunk |-> n, content |-> chunk.content,
                    tool_calls |-> chunk.tool_calls])

\* streaming_generator.add_chunk_from_str(content): a chunk with the text
add_chunk_from_str(events, n, content) ==
    Append(events, [chunk |-> n, content |-> content, tool_calls |-> << >>])

\* the payloads the model's answer comes in
FinalAnswerPayload ==
    JsonDict([tool_name_discriminator |->
                  JsonStr(<< Word("FinalAnswerTool") >>),
              answer |-> JsonStr(<< Word("42") >>)])

StepsPayload ==
    JsonDict([answer |-> JsonStr(<< Word("42") >>),
              completed_steps |-> JsonList(<< JsonStr(<< Word("read") >>) >>)])

NotePayload == JsonDict([note |-> JsonStr(<< Word("n/a") >>)])

\* the payload under k levels of `response` fields that hold JSON text
RECURSIVE EncodedTimes(_, _)
EncodedTimes(payload, k) ==
    IF k = 0 THEN payload
    ELSE JsonDict([response |->
                       JsonStr(json_dumps(EncodedTimes(payload, k - 1)))])

Payloads ==
    { EncodedTimes(p, k) :
        p \in { FinalAnswerPayload, StepsPayload, NotePayload },
        k \in 0..MaxDepth } \cup
    { JsonDict([response |-> FinalAnswerPayload]),
      JsonDict([response |-> JsonStr(<< Word("hello") >>)]) }

SplitPayloads == { FinalAnswerPayload, EncodedTimes(StepsPayload, MaxDepth) }

ChunkKinds ==
    { Chunk(<< >>, << ToolCall("c1", "FinalAnswerTool", json_dumps(p)) >>) :
        p \in Payloads } \cup
    { Chunk(<< >>, << ToolCall(id, "FinalAnswerTool",
                               << JsonPart(p, k, 2) >>) >>) :
        id \in { "c1", "" }, k \in 1..2, p \in SplitPayloads } \cup
    { Chunk(text, << >>) :
        text \in { << Word("hi") >>, << Blank >> } \cup
                 { json_dumps(p) : p \in SplitPayloads } } \cup
    { Chunk(<< Word("hi") >>,
            << ToolCall("c1", "FinalAnswerTool",
                        json_dumps(FinalAnswerPayload)) >>),
      NoChoices }

Streams == UNION { [1..n -> ChunkKinds] : n \in 0..MaxChunks }

StreamInit ==
    /\ AgentIdle
    /\ JiraIdle
    /\ SyncIdle
    /\ ChoiceIdle
    /\ LlmIdle
    /\ ScriptIdle
    /\ scall \in [structured : BOOLEAN, attached : BOOLEAN]
    /\ chunks \in Streams
    /\ received = 0
    /\ generator = << >>
    /\ plain_text_parts = << >>
    /\ tool_call_arguments = << >>
    /\ sret = [state |-> "running", out |-> NotReached]

\* lines 154-158: one event of the stream of the structured path
StructuredChunk ==
    /\ sret.state = "running"
    /\ scall.structured
    /\ received < Len(chunks)
    /\ received' = received + 1
    /\ generator' = IF scall.attached
                    THEN add_chunk(generator, received + 1,
                                   chunks[received + 1])
                    ELSE generator
    /\ UNCHANGED <<exceptStream, scall, chunks, plain_text_parts,
                   tool_call_arguments, sret>>

\* lines 177-208: one turn of the loop of the plain-text path
PlainChunk ==
    /\ sret.state = "running"
    /\ ~scall.structured
    /\ received < Len(chunks)
    /\ received' = received + 1
    /\ \E chunk \in { chunks[received + 1] } :
        IF ~chunk.choices
        THEN UNCHANGED <<generator, plain_text_parts, tool_call_arguments>>
        ELSE /\ plain_text_parts' =
                    IF chunk.content # << >>
                    THEN Append(plain_text_parts, chunk.content)
                    ELSE plain_text_parts
             /\ generator' =
                    IF chunk.content # << >> /\ scall.attached
                    THEN add_chunk_from_str(generator, received + 1,
                                            chunk.content)
                    ELSE generator
             /\ tool_call_arguments' =
                    store_tool_calls(tool_call_arguments, chunk.tool_calls, 1)
    /\ UNCHANGED <<exceptStream, scall, chunks, sret>>

\* lines 159-168: the stream has ended, the parsed answer is returned
StructuredReturn ==
    /\ sret.state = "running"
    /\ scall.structured
    /\ received = Len(chunks)
    /\ \E provider \in { p \in ProviderOutcomes : p.kind # "raise" } :
        sret' = [state |-> "done", out |-> call_llm(provider)]
    /\ UNCHANGED <<exceptStream, scall, chunks, received, generator,
                   plain_text_parts, tool_call_arguments>>

\* lines 241-261: the stream has ended, the answer is looked for
PlainReturn ==
    /\ sret.state = "running"
    /\ ~scall.structured
    /\ received = Len(chunks)
    /\ sret' = [state |-> "done",
                out |-> plain_answer(tool_call_arguments, plain_text_parts)]
    /\ UNCHANGED <<exceptStream, scall, chunks, received, generator,
                   plain_text_parts, tool_call_arguments>>

\* lines 263-265: the provider fails, the exception is logged and raised
ProviderRaises ==
    /\ sret.state = "running"
    /\ \E e \in ProviderErrors :
        sret' = [state |-> "done", out |-> Raises(e)]
    /\ UNCHANGED <<exceptStream, scall, chunks, received, generator,
                   plain_text_parts, tool_call_arguments>>

StreamNext ==
    \/ StructuredChunk
    \/ PlainChunk
    \/ StructuredReturn
    \/ PlainReturn
    \/ ProviderRaises

SpecStream == StreamInit /\ [][StreamNext]_vars

-----------------------------------------------------------------------------
(* Properties of call_llm *)

\* the chunk carries a text fragment or a fragment of tool-call arguments
CarriesFragment(chunk) ==
    chunk.choices /\ (chunk.content # << >> \/ chunk.tool_calls # << >>)

\* the n-th chunk was forwarded, whole, in one event
ForwardedOnce(n) ==
    /\ Cardinality({ i \in DOMAIN generator : generator[i].chunk = n }) = 1
    /\ \A i \in DOMAIN generator :
          generator[i].chunk = n =>
              /\ generator[i].content = chunks[n].content
              /\ generator[i].tool_calls = chunks[n].tool_calls

\* C14: with a generator attached, every chunk received that carries a text
\* fragment or a tool-call argument fragment is forwarded to the generator
\* exactly once, as an event of its own, in arrival order, on the structured
\* path and on the plain-text path.
C14_EveryChunkForwarded ==
    scall.attached =>
        /\ \A n \in 1..received :
              CarriesFragment(chunks[n]) => ForwardedOnce(n)
        /\ \A i, j \in DOMAIN generator :
              i < j => generator[i].chunk < generator[j].chunk

\* the call took the plain-text path and returned
PlainReturned ==
    sret.state = "done" /\ ~scall.structured /\ ~sret.out.raised

\* the JSON texts of an answer payload under at least least levels of
\* `response` fields that hold JSON text
AnswerTexts(least) ==
    { json_dumps(EncodedTimes(p, k)) :
        p \in { FinalAnswerPayload, StepsPayload }, k \in least..MaxDepth }

\* the model answered with the text, or with it as the arguments of a tool
\* call
AnsweredWith(texts) ==
    \/ strip_text(join(plain_text_parts)) \in texts
    \/ \E i \in DOMAIN tool_call_arguments :
          tool_call_arguments[i].arguments \in texts

\* C15 as stated: a string under `response` is decoded at most once along a
\* path: an answer under two or more levels of string-encoded `response`
\* fields is not extracted, the raw combined text is returned.
C15_DecodesOnceOnly ==
    ( /\ PlainReturned
      /\ tool_call_arguments = << >>
      /\ strip_text(join(plain_text_parts)) \in AnswerTexts(2) )
        => sret.out.value = JsonStr(strip_text(join(plain_text_parts)))

\* C15, amended: a string under `response` is decoded at every level: an
\* answer under any number of levels of string-encoded `response` fields is
\* extracted and returned.
C15_DecodesEveryLevel ==
    (PlainReturned /\ AnsweredWith(AnswerTexts(0)))
        => sret.out.value = JsonStr(<< Word("42") >>)

C15_Witness ==
    /\ PlainReturned
    /\ tool_call_arguments = << >>
    /\ strip_text(join(plain_text_parts)) \in AnswerTexts(2)
    /\ sret.out.value = JsonStr(<< Word("42") >>)


-----------------------------------------------------------------------------
(***************************************************************************)
(* PART 7. The client of the cloud agent                                   *)
(* (sgr_deep_research/extensions/agents/sgr_yandex_agent.py).  The         *)
(* constructor of SGRYandexAgent drops the client it is handed and builds  *)
(* its own, with the cloud folder as the `project` of the client.          *)
(***************************************************************************)

\* s.split("/", 1)[0]: what stands before the first slash
before_slash(s) ==
    LET slashes == { i \in 1..Len(s) : CharAt(s, i) = "/" }
    IN  IF slashes = {} THEN s
        ELSE SubSeq(s, 1, (CHOOSE i \in slashes : \A j \in slashes : i <= j) - 1)

\* lines 127-137; the parameter has the name of the source
extractCloudFolder(base_url) ==
    LET prefix == "gpt://"
    IN  IF startswith(base_url, prefix)
        THEN before_slash(SubSeq(base_url, Len(prefix) + 1, Len(base_url)))
        ELSE None

\* httpx.AsyncClient(proxy=...) of line 46; the client library's own HTTP
\* client when no http_client is given
DefaultHttpClient == [proxy |-> ""]

\* lines 42-48: the keyword arguments AsyncOpenAI is built with
Yandex_client_kwargs(cfg) ==
    [kind |-> "client",
     base_url |-> cfg.base_url,
     api_key |-> cfg.api_key,
     project |-> extractCloudFolder(cfg.model),
     http_client |-> IF cfg.proxy # "" THEN [proxy |-> cfg.proxy]
                     ELSE DefaultHttpClient]

\* the LLM configurations an agent is built with; proxy "" stands for None
CloudBaseUrls ==
    { "gpt://b1gfolder/yandexgpt/latest", "gpt://b1gfolder",
      "https://llm.api.cloud.yandex.net/v1", "http://host/gpt://b1gfolder/" }

CloudModels ==
    { "gpt://b1gmodel/yandexgpt-lite/latest", "gpt://", "yandexgpt-lite",
      "gpt-4o-mini" }

CloudConfigs ==
    [kind : { "config" }, base_url : CloudBaseUrls, model : CloudModels,
     api_key : { "key-1", "key-2" }, proxy : { "", "http://proxy:3128" }]

CloudInit ==
    /\ AgentIdle
    /\ JiraIdle
    /\ SyncIdle
    /\ ChoiceIdle
    /\ LlmIdle
    /\ StreamIdle
    /\ SettingsIdle
    /\ TodoIdle
    /\ llm_config \in CloudConfigs
    /\ openai_client = [kind |-> "none"]

\* lines 31-48: SGRYandexAgent(task, openai_client, llm_config, ...)
NewYandexAgent ==
    /\ openai_client.kind = "none"
    /\ openai_client' = Yandex_client_kwargs(llm_config)
    /\ UNCHANGED <<exceptCloud, llm_config>>

CloudNext == NewYandexAgent

SpecCloud == CloudInit /\ [][CloudNext]_vars

\* C16: the `project` of the cloud agent's client is the folder of the
\* configuration's base_url: <folder> when base_url is gpt://<folder>/...,
\* None when base_url lacks the prefix, whatever the model identifier is.
C16_FolderFromBaseUrl ==
    openai_client.kind = "client" =>
        openai_client.project =
            IF startswith(llm_config.base_url, "gpt://")
            THEN before_slash(SubSeq(llm_config.base_url, 7,
                                     Len(llm_config.base_url)))
            ELSE None


-----------------------------------------------------------------------------
(***************************************************************************)
(* PART 8. The TODO file (official-agent/scripts/sync_todo_to_jira.py,     *)
(* parse_todo_file and the summary of lines 142-146).  A line is a string; *)
(* the two regular expressions are matched character by character, as      *)
(* re.match does: \s is a blank or a tab, \d a digit, \w a letter, a digit *)
(* or the underscore.                                                      *)
(***************************************************************************)

Spaces == { " ", "\t" }

Digits == { "0", "1", "2", "3", "4", "5", "6", "7", "8", "9" }

WordChars ==
    Digits \cup { "_" }
      \cup { CharAt(UpperChars, i) : i \in 1..Len(UpperChars) }
      \cup { CharAt(LowerChars, i) : i \in 1..Len(LowerChars) }

\* where a greedy class* that starts at i stops: the first index from i on
\* whose character is not of the class, Len(s) + 1 when there is none
span(s, i, class) ==
    CHOOSE j \in i..(Len(s) + 1) :
        /\ \A k \in i..(j - 1) : CharAt(s, k) \in class
        /\ j = Len(s) + 1 \/ CharAt(s, j) \notin class

\* the character at i is c
char_is(s, i, c) == i <= Len(s) /\ CharAt(s, i) = c

\* line.strip()
strip_ws(s) ==
    LET inked == { i \in 1..Len(s) : CharAt(s, i) \notin Spaces }
    IN  IF inked = {} THEN ""
        ELSE SubSeq(s, CHOOSE i \in inked : \A j \in inked : i <= j,
                       CHOOSE i \in inked : \A j \in inked : i >= j)

\* \d+(?:\.\d+)* from i: where the match ends, 0 when there is none
RECURSIVE number_end(_, _)
number_end(s, i) ==
    LET j == span(s, i, Digits)
    IN  IF j = i THEN 0
        ELSE IF char_is(s, j, ".") /\ span(s, j + 1, Digits) > j + 1
        THEN number_end(s, j + 1)
        ELSE j

NoMatch == [matched |-> FALSE]

\* \s+(.+)$ from i, f being the end of the blanks: the group is the rest
\* from the first character that is no blank; when only blanks are left the
\* blanks give the last one back to the group
tail_group(line, i, f) ==
    IF f = i THEN NoMatch
    ELSE IF f <= Len(line)
    THEN [matched |-> TRUE, group |-> SubSeq(line, f, Len(line))]
    ELSE IF f - 1 > i
    THEN [matched |-> TRUE, group |-> SubSeq(line, Len(line), Len(line))]
    ELSE NoMatch

\* line 78: re.match(r"^(\d+)\.\s+(.+)$", text)
main_section_match(text) ==
    LET j == span(text, 1, Digits)
        tail == tail_group(text, j + 1, span(text, j + 1, Spaces))
    IN  IF j > 1 /\ char_is(text, j, ".") /\ tail.matched
        THEN [matched |-> TRUE, number |-> SubSeq(text, 1, j - 1),
              title |-> tail.group]
        ELSE NoMatch

\* the status of the pattern: \[(\w+)\] from d, then the description
status_match(line, number, d) ==
    LET e == span(line, d + 1, WordChars)
        tail == tail_group(line, e + 1, span(line, e + 1, Spaces))
    IN  IF char_is(line, d, "[") /\ e > d + 1 /\ char_is(line, e, "]")
           /\ tail.matched
        THEN [matched |-> TRUE, number |-> number,
              status |-> SubSeq(line, d + 1, e - 1),
              description |-> tail.group]
        ELSE NoMatch

\* the number of the pattern: (\d+(?:\.\d+)*)\s+ from b
number_match(line, b, c) ==
    IF c = 0 \/ span(line, c, Spaces) = c THEN NoMatch
    ELSE status_match(line, SubSeq(line, b, c - 1), span(line, c, Spaces))

\* lines 74 and 87:
\* re.match(r"^\s*-\s+(\d+(?:\.\d+)*)\s+\[(\w+)\]\s+(.+)$", line)
pattern_match(line) ==
    LET a == span(line, 1, Spaces)
        b == span(line, a + 1, Spaces)
    IN  IF char_is(line, a, "-") /\ b > a + 1
        THEN number_match(line, b, number_end(line, b))
        ELSE NoMatch

\* the dots of the number counted, not the parts
level_of_dots(item_number) ==
    Cardinality({ i \in 1..Len(item_number) : CharAt(item_number, i) = "." })

\* len(item_number.split("."))
level_of(item_number) ==
    Cardinality({ i \in 1..Len(item_number) : CharAt(item_number, i) = "." })
      + 1

\* item_number.split(".")[0]
first_part(item_number) ==
    LET dots == { i \in 1..Len(item_number) : CharAt(item_number, i) = "." }
    IN  IF dots = {} THEN item_number
        ELSE SubSeq(item_number, 1,
                    (CHOOSE i \in dots : \A j \in dots : i <= j) - 1)

\* current_section = None
NoSection == [number |-> "", title |-> "", given |-> FALSE]

\* lines 89-106: the item of a matching line
todo_item(m, current_section) ==
    [number |-> m.number,
     status |-> m.status,
     description |-> strip_ws(m.description),
     level |-> level_of(m.number),
     section |-> IF current_section.given THEN current_section.number
                 ELSE first_part(m.number),
     section_title |-> IF current_section.given THEN current_section.title
                       ELSE ""]

\* lines 76-106: the loop over the lines, from the i-th on
RECURSIVE parse_lines(_, _, _, _)
parse_lines(lines, i, current_section, items) ==
    IF i > Len(lines) THEN items
    ELSE IF main_section_match(strip_ws(lines[i])).matched
    THEN parse_lines(lines, i + 1,
                     [number |-> main_section_match(strip_ws(lines[i])).number,
                      title |->
                          strip_ws(main_section_match(strip_ws(lines[i])).title),
                      given |-> TRUE],
                     items)
    ELSE IF pattern_match(lines[i]).matched
    THEN parse_lines(lines, i + 1, current_section,
                     Append(items,
                            todo_item(pattern_match(lines[i]),
                                      current_section)))
    ELSE parse_lines(lines, i + 1, current_section, items)

\* lines 56-108
parse_todo_file(lines) == parse_lines(lines, 1, NoSection, << >>)


-----------------------------------------------------------------------------
(* The TODO files the script is run on *)

\* fifty characters of text
Fifty == "Lorem ipsum dolor sit amet consectetur adipiscing."

\* a description of n characters, n up to 200
Filler(n) == SubSeq(Fifty \o Fifty \o Fifty \o Fifty, 1, n)

\* the item lines as the plan writes them: "- <number> [<STATUS>] <text>"
ItemForms ==
    { [number |-> "1.1", status |-> "DONE",
       description |-> "Configure database schema"],
      [number |-> "2", status |-> "PENDING", description |-> "api"],
      [number |-> "2.1.3", status |-> "IN_PROGRESS",
       description |-> "tests [unit]"],
      [number |-> "3", status |-> "BLOCKED", description |-> "deploy"],
      [number |-> "4.1", status |-> "DONE", description |-> Filler(99)],
      [number |-> "4.2", status |-> "PENDING", description |-> Filler(100)],
      [number |-> "4.3", status |-> "IN_PROGRESS",
       description |-> Filler(101)],
      [number |-> "4.4", status |-> "DONE", description |-> Filler(150)] }

ItemText(f) ==
    "- " \o f.number \o " [" \o f.status \o "] " \o f.description

ItemLines == { ItemText(f) : f \in ItemForms }

\* item lines without a status in brackets
NoStatusLines == { "- 5 write the docs", "- 5.1 DONE write the docs" }

\* the headings of the main sections, other headings, the empty line
OtherLines == { "", "# TODO plan", "1. Setup", "2. Delivery" }

\* lines that are written differently
OddLines ==
    { "  - 1.2 [DONE]   indented  ", "\t- 7 [PENDING] tabbed",
      "- 8 [IN PROGRESS] two words", "- 9. [DONE] dot at the end",
      "- 10 [DONE]", "- 11 [DONE]  ", "-12 [DONE] no blank",
      "* 13 [DONE] a star" }

TodoLines == ItemLines \cup NoStatusLines \cup OtherLines \cup OddLines

TodoFiles == UNION { [1..n -> TodoLines] : n \in 0..MaxLines }

TodoInit ==
    /\ AgentIdle
    /\ JiraIdle
    /\ SyncIdle
    /\ ChoiceIdle
    /\ LlmIdle
    /\ StreamIdle
    /\ CloudIdle
    /\ SettingsIdle
    /\ todo_lines \in TodoFiles
    /\ todo_parsed = [kind |-> "none"]
    /\ summaries = << >>

\* line 132: todo_items = parse_todo_file(todo_path)
ParseTodoFile ==
    /\ todo_parsed.kind = "none"
    /\ todo_parsed' = [kind |-> "items", items |-> parse_todo_file(todo_lines)]
    /\ UNCHANGED <<exceptTodo, todo_lines, summaries>>

\* lines 142-146: the summary of the next item of the loop; what the loop
\* does with it at the tracker is PART 3
BuildSummary ==
    /\ todo_parsed.kind = "items"
    /\ Len(summaries) < Len(todo_parsed.items)
    /\ summaries' =
           Append(summaries,
                  sync_summary(todo_parsed.items[Len(summaries) + 1]))
    /\ UNCHANGED <<exceptTodo, todo_lines, todo_parsed>>

TodoNext == ParseTodoFile \/ BuildSummary

SpecTodo == TodoInit /\ [][TodoNext]_vars

\* what the claim names of an item
Named(item) ==
    [number |-> item.number, status |-> item.status,
     description |-> item.description, level |-> item.level]

\* the number of parts of a dotted number, by its first part and the rest
RECURSIVE Components(_)
Components(number) ==
    IF first_part(number) = number THEN 1
    ELSE 1 + Components(SubSeq(number, Len(first_part(number)) + 2,
                               Len(number)))

\* the items the plan's item lines stand for, in the order of the lines
RECURSIVE WrittenItems(_, _)
WrittenItems(lines, i) ==
    IF i > Len(lines) THEN << >>
    ELSE IF lines[i] \in ItemLines
    THEN << [number |-> (CHOOSE f \in ItemForms : ItemText(f) = lines[i]).number,
             status |-> (CHOOSE f \in ItemForms : ItemText(f) = lines[i]).status,
             description |->
                 (CHOOSE f \in ItemForms : ItemText(f) = lines[i]).description,
             level |->
                 Components((CHOOSE f \in ItemForms :
                                ItemText(f) = lines[i]).number)] >>
         \o WrittenItems(lines, i + 1)
    ELSE WrittenItems(lines, i + 1)

\* C17: parse_todo_file yields, in file order, one item per line of the form
\* "- <dotted-number> [<STATUS>] <description>", with the number, the status
\* and the description as written and the level the number of the parts of
\* the number; a line without a status in brackets yields no item.
C17_ItemPerItemLine ==
    ( /\ todo_parsed.kind = "items"
      /\ \A i \in DOMAIN todo_lines :
            todo_lines[i] \in ItemLines \cup NoStatusLines \cup OtherLines )
        => [i \in DOMAIN todo_parsed.items |-> Named(todo_parsed.items[i])]
               = WrittenItems(todo_lines, 1)

C17_Witness ==
    /\ todo_parsed.kind = "items"
    /\ todo_lines = << "- 5 write the docs",
                       "- 1.1 [DONE] Configure database schema" >>
    /\ Len(todo_parsed.items) = 1
    /\ Named(todo_parsed.items[1]) =
           [number |-> "1.1", status |-> "DONE",
            description |-> "Configure database schema", level |-> 2]


\* C18: parse_todo_file produces items only of lines whose status in brackets
\* is DONE, IN_PROGRESS or PENDING: a line with any other word there yields
\* no item, and the sync builds no summary of a subtask for it.
C18_OnlyKnownStatuses ==
    todo_parsed.kind = "items" =>
        \A i \in DOMAIN todo_parsed.items :
            todo_parsed.items[i].status \in TodoStatuses


\* what follows "<number>: " in the summary of the i-th item
AfterNumber(i) ==
    SubSeq(summaries[i], Len(todo_parsed.items[i].number) + 3,
           Len(summaries[i]))

\* C19: the summary of an item is "<number>: ", the first 100 characters of
\* the description, and "..." exactly when the description is longer than
\* 100 characters: what follows "<number>: " is never longer than 103
\* characters and is the whole description when that has at most 100.
C19_SummaryCutAt100 ==
    \A i \in DOMAIN summaries :
        /\ startswith(summaries[i], todo_parsed.items[i].number \o ": ")
        /\ Len(AfterNumber(i)) <= 103
        /\ Len(todo_parsed.items[i].description) <= 100
               => AfterNumber(i) = todo_parsed.items[i].description
        /\ Len(todo_parsed.items[i].description) > 100
               => /\ Len(AfterNumber(i)) = 103
                  /\ SubSeq(AfterNumber(i), 1, 100) =
                         SubSeq(todo_parsed.items[i].description, 1, 100)
                  /\ SubSeq(AfterNumber(i), 101, 103) = "..."

C19_Witness ==
    /\ Len(summaries) = 2
    /\ Len(todo_parsed.items[1].description) = 100
    /\ Len(summaries[1]) = 105
    /\ Len(todo_parsed.items[2].description) = 150
    /\ Len(summaries[2]) = 108


-----------------------------------------------------------------------------
(***************************************************************************)
(* PART 9. The JIRA settings of the sync script                            *)
(* (official-agent/scripts/sync_todo_to_jira.py, lines 33-53).  The jira   *)
(* section of config.yaml and the environment are mappings from names to   *)
(* strings; a name that is not in the mapping is not set.                  *)
(***************************************************************************)

SettingKeys ==
    { "server", "username", "password", "project_key", "parent_issue" }

\* lines 45-49: the environment variable of a setting
EnvName(key) ==
    CASE key = "server" -> "JIRA_SERVER"
      [] key = "username" -> "JIRA_USERNAME"
      [] key = "password" -> "JIRA_PASSWORD"
      [] key = "project_key" -> "JIRA_PROJECT_KEY"
      [] key = "parent_issue" -> "JIRA_PARENT_ISSUE"

\* lines 45-49: the default os.getenv is given; None for the password
EnvDefault(key) ==
    CASE key = "server" -> "http://172.16.254.6:8080"
      [] key = "username" -> "igorvolk"
      [] key = "password" -> None
      [] key = "project_key" -> "PFM"
      [] key = "parent_issue" -> "PFM-33"

\* bool(value) of a string or None
truthy_str(value) == value # None /\ value # ""

\* lines 45-49: jira_config.get(key) or os.getenv(name, default)
jira_setting(section, env, key) ==
    IF truthy_str(get(section, key, None))
    THEN get(section, key, None)
    ELSE get(env, EnvName(key), EnvDefault(key))

\* lines 44-53: the module-level names, or exit(1) without a password
load_settings(section, env) ==
    IF truthy_str(jira_setting(section, env, "password"))
    THEN [kind |-> "settings",
          values |-> [key \in SettingKeys |-> jira_setting(section, env, key)]]
    ELSE [kind |-> "exit", code |-> 1]

\* the jira sections of config.yaml: a key is absent, empty or set
JiraSections ==
    UNION { [keys -> { "", "from config.yaml" }] : keys \in SUBSET SettingKeys }

\* the environments: a variable is unset or set
Environments ==
    { [name \in { EnvName(key) : key \in keys } |-> "from the environment"] :
        keys \in SUBSET SettingKeys }

SettingsInit ==
    /\ AgentIdle
    /\ JiraIdle
    /\ SyncIdle
    /\ ChoiceIdle
    /\ LlmIdle
    /\ StreamIdle
    /\ CloudIdle
    /\ TodoIdle
    /\ jira_config \in JiraSections
    /\ environ \in Environments
    /\ settings = [kind |-> "none"]

\* lines 44-53, as the module is imported
LoadSettings ==
    /\ settings.kind = "none"
    /\ settings' = load_settings(jira_config, environ)
    /\ UNCHANGED <<exceptSettings, jira_config, environ>>

SettingsNext == LoadSettings

SpecSettings == SettingsInit /\ [][SettingsNext]_vars

\* C20: for each JIRA setting, when the jira section of config.yaml and the
\* JIRA_* environment variable both supply a value, the value of the
\* environment variable is the one used.
C20_EnvironmentWins ==
    settings.kind = "settings" =>
        \A key \in SettingKeys :
            ( /\ key \in DOMAIN jira_config
              /\ truthy_str(jira_config[key])
              /\ EnvName(key) \in DOMAIN environ
              /\ truthy_str(environ[EnvName(key)]) )
                => settings.values[key] = environ[EnvName(key)]


-----------------------------------------------------------------------------
(* Claims about the runs of a cloud agent *)

C21_NoFinalAnswerBeforeReport ==
    (JustPrepared /\ CreateReportTool \in toolkit
       /\ ctx.report_creations_used = 0) =>
        FinalAnswerTool \notin offered.tools

\* C21: in the cloud variant with CreateReportTool in the toolkit,
\* FinalAnswerTool is not offered while report_creations_used = 0, so on
\* every run the first execution of CreateReportTool precedes any execution
\* of FinalAnswerTool.
C21_ReportPrecedesFinalAnswer ==
    /\ [] C21_NoFinalAnswerBeforeReport
    /\ [][(apc' = "completed" /\ CreateReportTool \in toolkit)
              => ctx.report_creations_used > 0]_vars

C21_Witness ==
    /\ apc = "completed"
    /\ CreateReportTool \in toolkit
    /\ ctx.report_creations_used = 1
    /\ ctx.iteration = 3


C22_ExtractionsFollowSearches ==
    /\ ctx.page_extractions_used <= ctx.searches_used
    /\ ctx.searches_used <= ctx.page_extractions_used + 1

\* C22: on every run of a cloud agent, page_extractions_used <=
\* searches_used <= page_extractions_used + 1: a web search is executed only
\* when every earlier search was followed by a page extraction, and a page
\* extraction only when a search is unread.
C22_SearchThenExtract ==
    /\ [] C22_ExtractionsFollowSearches
    /\ [][ctx'.searches_used > ctx.searches_used
              => ctx.page_extractions_used = ctx.searches_used]_vars
    /\ [][ctx'.page_extractions_used > ctx.page_extractions_used
              => ctx.page_extractions_used < ctx.searches_used]_vars

C22_Witness ==
    /\ ctx.searches_used = 2
    /\ ctx.page_extractions_used = 1
    /\ apc = "prepared"
    /\ ExtractPageContentTool \in offered.tools
    /\ WebSearchTool \notin offered.tools

\* C26: a cloud agent never gets stuck without a choice: for every toolkit
\* that contains FinalAnswerTool and all limits, every _prepare_tools call of
\* a run returns a tool set that is not empty, also at iteration >=
\* max_iterations.
C26_NeverWithoutChoice ==
    (JustPrepared /\ FinalAnswerTool \in toolkit) =>
        /\ offered.raised = "none"
        /\ offered.tools # {}


(* Properties of the tool-call fragments of the plain-text path *)

\* the argument fragments of the tool calls of the first n chunks, in
\* arrival order (every tool call of the streams has the index 0)
RECURSIVE ArrivedArguments(_)
ArrivedArguments(n) ==
    IF n = 0 THEN << >>
    ELSE ArrivedArguments(n - 1) \o
         (IF chunks[n].choices
          THEN join([i \in DOMAIN chunks[n].tool_calls |->
                        chunks[n].tool_calls[i].arguments])
          ELSE << >>)

\* the first tool-call fragment received carries the id of the call
FirstFragmentHasId ==
    \A n \in 1..received :
        (/\ chunks[n].choices
         /\ chunks[n].tool_calls # << >>
         /\ \A m \in 1..(n - 1) :
               ~chunks[m].choices \/ chunks[m].tool_calls = << >>)
            => chunks[n].tool_calls[1].id # ""

\* C25: on the plain-text path all argument fragments of one tool call are
\* accumulated in arrival order under a single key, also when only the first
\* fragment carries the id of the call and the later ones only its index.
C25_FragmentsUnderOneKey ==
    (~scall.structured /\ FirstFragmentHasId) =>
        /\ Len(tool_call_arguments) <= 1
        /\ Len(tool_call_arguments) = 1 =>
              tool_call_arguments[1].arguments = ArrivedArguments(received)


(* Properties of the credentials of the model-choice LLM calls *)

\* C30: every request of the model-choice LLMService.call_llm goes through a
\* client built with the api_key passed to that call: a call with a base URL
\* and the key k2 never uses the client built for the same URL with k1.
C30_ClientHasKeyOfCall ==
    \A i \in DOMAIN lcalls :
        lcalls[i].service = "choice" =>
            /\ clients[lcalls[i].client].base_url = lcalls[i].base_url
            /\ clients[lcalls[i].client].api_key = lcalls[i].api_key

====
